---- MODULE Spec2Model ----
(***************************************************************************)
(* Model of the coverage data pipeline of maxbirkner/coveragemap:          *)
(*   LcovParser.parse          (report parser, line by line)               *)
(*   CoverageAnalyzer.analyze  (per-file and aggregate percentages)        *)
(*   CoverageAnalyzer.meetsCoverageThreshold                               *)
(*   CoverageGating.evaluate   (standard / baseline gating)                *)
(*                                                                         *)
(*   TreemapGenerator.generateTreemapData  (nodes of the treemap)          *)
(*   ChecksService.generateAnnotations     (annotations, check conclusion) *)
(*   run                       (the steps of the action and its outcome)   *)
(*                                                                         *)
(* Spec    : the parser reading an arbitrary bounded input line by line.   *)
(* SpecAn  : analyzer and gating applied to reports drawn from a bounded   *)
(*           set of parsed reports.                                        *)
(* SpecTm  : generateTreemapData called on analyses of reports whose       *)
(*           function and line lists come in any order.                    *)
(* SpecGr  : the annotations for uncovered lines of one file.              *)
(* SpecRun : run(), one pipeline step per action, with the exceptions a    *)
(*           step can raise.                                               *)
(*                                                                         *)
(* Percentages are kept in hundredths of a percent (an integer), which is  *)
(* exactly the precision Math.round(x * 100) / 100 leaves.                 *)
(***************************************************************************)
EXTENDS Integers, Sequences, FiniteSets, TLC

VARIABLES
    pc,                \* position in the pipeline
    n,                 \* number of raw input lines consumed by parse
    files,             \* Map<string, FileCoverage> of parse
    currentFile,       \* parse: the open accumulator (or null)
    currentFunctions,  \* parse: array currentFunctions
    currentLines,      \* parse: array currentLines
    currentBranches,   \* parse: array currentBranches
    alias,             \* parse: path of the stored record whose arrays ARE the current arrays ("" = none)
    summary,           \* LcovReport.summary (set when parse returns)
    lastLine,          \* history: the raw line consumed by the last step
    named,             \* history: non-empty paths named by SF: lines so far
    sfCount,           \* history: number of SF: lines with a non-empty path so far
    blk,               \* history: per path, the record lines read since the last SF: naming it
    blkCur,            \* history: path of the latest SF: line ("" = none yet)
    blkOpen,           \* history: the latest SF: block is not closed yet
    closedAt,          \* history: per path, the length of blk[path] when its block was closed
    changeset,         \* analyze: the changed-file list (paths, in order)
    analysis,          \* CoverageAnalysis returned by analyze
    check,             \* outcome of meetsCoverageThreshold
    gating,            \* GatingResult returned by evaluate
    treemaps,          \* the children returned by each call of generateTreemapData, in order
    ckFile,            \* the changed file handed to generateUncoveredLineAnnotations
    regions,           \* the groups returned by groupConsecutiveLines
    annotations,       \* the annotations returned by generateUncoveredLineAnnotations / generateAnnotations
    inputs,            \* run: the ActionInputs read by getInputs
    coreLog,           \* run: the calls of core.setFailed, core.warning and of core.info with the success message, in order
    conclusion,        \* run: the conclusion of the check run that was created ("none" = no check run)
    thrown,            \* run: the step whose exception reached the catch of run ("none" = no exception)
    comments,          \* the comments of the pull request on GitHub, in the order of listComments
    posts              \* history: the calls of postComment on the pull request (label, outcome, comment id)

vars == <<pc, n, files, currentFile, currentFunctions, currentLines,
          currentBranches, alias, summary, lastLine, named, sfCount, blk,
          blkCur, blkOpen, closedAt, changeset, analysis, check, gating,
          treemaps, ckFile, regions, annotations, inputs, coreLog,
          conclusion, thrown, comments, posts>>

parseVars == <<files, currentFile, currentFunctions, currentLines,
               currentBranches, alias, summary>>
histVars == <<named, sfCount, blk, blkCur, blkOpen, closedAt>>
anVars == <<changeset, analysis, check, gating>>
runVars == <<inputs, coreLog, conclusion, thrown>>
prVars == <<comments, posts>>
outVars == <<treemaps, ckFile, regions, annotations, runVars, prVars>>

\* the input `label` was not supplied
NoLabel == <<>>

\* run has not started
RunInit ==
    /\ inputs = [coverageThreshold |-> 0, githubAppId |-> FALSE,
                 githubAppPrivateKey |-> FALSE, label |-> NoLabel]
    /\ coreLog = <<>>
    /\ conclusion = "none"
    /\ thrown = "none"

\* the pull request has no comment yet
PrInit ==
    /\ comments = <<>>
    /\ posts = <<>>

\* nothing has been produced from an analysis yet
OutInit ==
    /\ treemaps = <<>>
    /\ ckFile = [path |-> ""]
    /\ regions = <<>>
    /\ annotations = <<>>
    /\ RunInit
    /\ PrInit

----------------------------------------------------------------------------
(* Bounds *)

MaxLen == 4        \* raw input lines per parse

----------------------------------------------------------------------------
(* Raw input lines.  A line is its prefix (tag), the comma-separated      *)
(* fields after the prefix (parts) and whether it carries surrounding     *)
(* whitespace (pad).  An SF: line has one part, the path: the code takes  *)
(* line.substring(3) whole.                                               *)

Line(tag, parts) == [tag |-> tag, parts |-> parts, pad |-> FALSE]
Padded(l) == [l EXCEPT !.pad = TRUE]

RawLines ==
    { Line("SF:", <<"a">>), Line("SF:", <<"b">>), Line("SF:", <<"">>),
      Padded(Line("SF:", <<"b">>)),
      Line("FN:", <<"1", "f">>), Line("FN:", <<"2", "f">>),
      Line("FN:", <<"3", "g", "h">>),
      Line("FNDA:", <<"1", "f">>), Line("FNDA:", <<"2", "g", "h">>),
      Line("FNDA:", <<"1", "g">>),
      Line("DA:", <<"1", "1">>), Line("DA:", <<"2", "0">>), Line("DA:", <<"2">>),
      Line("BRDA:", <<"1", "0", "0", "-">>), Line("BRDA:", <<"1", "0", "1", "1">>),
      Line("end_of_record", <<>>), Padded(Line("end_of_record", <<>>)),
      Line("TN:", <<>>), Padded(Line("", <<>>)) }

\* line.trim()
Trim(l) == [l EXCEPT !.pad = FALSE]

\* line.length > 0
NonEmpty(l) == l.pad \/ l.tag /= ""

\* line.startsWith(prefix) / line === "end_of_record"
StartsWith(l, prefix) == ~l.pad /\ l.tag = prefix

\* parseInt(s, 10) on the decimal fields of the input
ParseInt(s) ==
    CASE s = "0" -> 0
      [] s = "1" -> 1
      [] s = "2" -> 2
      [] s = "3" -> 3

\* parts.slice(1).join(","): the fields hold no comma, so the joined string
\* is determined by, and determines, the sequence of the remaining fields
JoinTail(parts) == Tail(parts)

----------------------------------------------------------------------------
(* LcovParser helpers *)

Null == [isNull |-> TRUE, path |-> ""]
Open(path) == [isNull |-> FALSE, path |-> path]

\* the truthiness test `currentFile && currentFile.path`
HasPath(cf) == ~cf.isNull /\ cf.path /= ""

\* functions.filter((f) => f.hit > 0).length
CountHit(functions) == Cardinality({i \in 1..Len(functions) : functions[i].hit > 0})

\* branches.filter((b) => b.taken > 0).length
CountTaken(branches) == Cardinality({i \in 1..Len(branches) : branches[i].taken > 0})

FinalizeFileCoverage(file, functions, lines, branches) ==
    [path |-> file.path,
     functions |-> functions,
     lines |-> lines,
     branches |-> branches,
     summary |-> [functionsFound |-> Len(functions),
                  functionsHit |-> CountHit(functions),
                  linesFound |-> Len(lines),
                  linesHit |-> CountHit(lines),
                  branchesFound |-> Len(branches),
                  branchesHit |-> CountTaken(branches)]]

\* mutant: a path already stored keeps its first record
MapSet_KeepFirst(m, key, value) ==
    [k \in DOMAIN m \cup {key} |-> IF k \in DOMAIN m THEN m[k] ELSE value]

\* files.set(key, value)
MapSet(m, key, value) ==
    [k \in DOMAIN m \cup {key} |-> IF k = key THEN value ELSE m[k]]

RECURSIVE SumOver(_, _, _)
SumOver(m, keys, field) ==
    IF keys = {} THEN 0
    ELSE LET k == CHOOSE x \in keys : TRUE
         IN m[k].summary[field] + SumOver(m, keys \ {k}, field)

CalculateSummary(m) ==
    [totalFiles |-> Cardinality(DOMAIN m),
     functionsFound |-> SumOver(m, DOMAIN m, "functionsFound"),
     functionsHit |-> SumOver(m, DOMAIN m, "functionsHit"),
     linesFound |-> SumOver(m, DOMAIN m, "linesFound"),
     linesHit |-> SumOver(m, DOMAIN m, "linesHit"),
     branchesFound |-> SumOver(m, DOMAIN m, "branchesFound"),
     branchesHit |-> SumOver(m, DOMAIN m, "branchesHit")]

ZeroSummary ==
    [totalFiles |-> 0, functionsFound |-> 0, functionsHit |-> 0,
     linesFound |-> 0, linesHit |-> 0, branchesFound |-> 0, branchesHit |-> 0]

\* `if (currentFile && currentFile.path) { files.set(path, finalize(...)) }`
\* before a new SF: block is opened
FlushOnSF(m, cf, functions, lines, branches) ==
    IF HasPath(cf)
    THEN MapSet(m, cf.path, FinalizeFileCoverage(cf, functions, lines, branches))
    ELSE m

\* mutant: no flush after the loop
FlushAtEnd_Dropped(m, cf, functions, lines, branches) == m

\* the same, after the loop (input without a trailing end_of_record)
FlushAtEnd(m, cf, functions, lines, branches) ==
    IF HasPath(cf)
    THEN MapSet(m, cf.path, FinalizeFileCoverage(cf, functions, lines, branches))
    ELSE m

\* finalizeFileCoverage returns the accumulator arrays themselves, so after
\* end_of_record (which keeps the arrays) the stored record and the
\* accumulator share them: a change of the arrays shows in the record.
Shared(m, a, functions, lines, branches) ==
    IF a = "" THEN m
    ELSE [m EXCEPT ![a].functions = functions,
                   ![a].lines = lines,
                   ![a].branches = branches]

\* mutant: the last match instead of the first
FindFunction_Last(functions, name) ==
    LET hits == {i \in 1..Len(functions) : functions[i].name = name}
    IN IF hits = {} THEN 0 ELSE CHOOSE i \in hits : \A j \in hits : i >= j

\* currentFunctions.find((f) => f.name === name): index of the first match, 0 if none
FindFunction(functions, name) ==
    LET hits == {i \in 1..Len(functions) : functions[i].name = name}
    IN IF hits = {} THEN 0 ELSE CHOOSE i \in hits : \A j \in hits : i <= j

\* FN:<line>,<name>
PushFunction(functions, parts) ==
    IF Len(parts) >= 2
    THEN Append(functions, [name |-> JoinTail(parts),
                            line |-> ParseInt(parts[1]),
                            hit |-> 0])
    ELSE functions

\* FNDA:<hit>,<name>
SetFunctionHit(functions, parts) ==
    IF Len(parts) >= 2
    THEN LET i == FindFunction(functions, JoinTail(parts))
         IN IF i = 0 THEN functions
            ELSE [functions EXCEPT ![i].hit = ParseInt(parts[1])]
    ELSE functions

\* DA:<line>,<hit>
PushLine(lines, parts) ==
    IF Len(parts) >= 2
    THEN Append(lines, [line |-> ParseInt(parts[1]), hit |-> ParseInt(parts[2])])
    ELSE lines

\* BRDA:<line>,<block>,<branch>,<taken>
PushBranch(branches, parts) ==
    IF Len(parts) >= 4
    THEN Append(branches, [line |-> ParseInt(parts[1]),
                           block |-> ParseInt(parts[2]),
                           branch |-> ParseInt(parts[3]),
                           taken |-> IF parts[4] = "-" THEN 0
                                     ELSE ParseInt(parts[4])])
    ELSE branches

----------------------------------------------------------------------------
(* History of the input, kept beside the parser's own state *)

RecordTags == {"FN:", "FNDA:", "DA:", "BRDA:"}

\* the lines of a segment, read again from scratch
RECURSIVE Replay(_)
Replay(ls) ==
    IF ls = <<>> THEN [functions |-> <<>>, lines |-> <<>>, branches |-> <<>>]
    ELSE LET b == Replay(SubSeq(ls, 1, Len(ls) - 1))
             l == ls[Len(ls)]
         IN CASE l.tag = "FN:" -> [b EXCEPT !.functions = PushFunction(@, l.parts)]
              [] l.tag = "FNDA:" -> [b EXCEPT !.functions = SetFunctionHit(@, l.parts)]
              [] l.tag = "DA:" -> [b EXCEPT !.lines = PushLine(@, l.parts)]
              [] l.tag = "BRDA:" -> [b EXCEPT !.branches = PushBranch(@, l.parts)]
              [] OTHER -> b

Put(h, key, value) ==
    [k \in DOMAIN h \cup {key} |-> IF k = key THEN value ELSE h[k]]

\* closing the latest block, if it is open, fixes the length it had
CloseBlock(c) ==
    IF blkOpen THEN Put(c, blkCur, Len(blk[blkCur])) ELSE c

\* history after one more raw line
Note(raw) ==
    LET l == Trim(raw) IN
    /\ lastLine' = raw
    /\ IF l.tag = "SF:"
       THEN /\ blkCur' = l.parts[1]
            /\ blkOpen' = (l.parts[1] /= "")
            /\ closedAt' = CloseBlock(closedAt)
            /\ IF l.parts[1] /= ""
               THEN /\ named' = named \cup {l.parts[1]}
                    /\ sfCount' = sfCount + 1
                    /\ blk' = Put(blk, l.parts[1], <<>>)
               ELSE UNCHANGED <<named, sfCount, blk>>
       ELSE /\ UNCHANGED <<named, sfCount, blkCur>>
            /\ IF l.tag = "end_of_record"
               THEN /\ blkOpen' = FALSE
                    /\ closedAt' = CloseBlock(closedAt)
               ELSE UNCHANGED <<blkOpen, closedAt>>
            /\ IF l.tag \in RecordTags /\ blkCur /= ""
               THEN blk' = [blk EXCEPT ![blkCur] = Append(@, l)]
               ELSE UNCHANGED blk

\* history at the end of the input
NoteEnd ==
    /\ closedAt' = CloseBlock(closedAt)
    /\ blkOpen' = FALSE
    /\ UNCHANGED <<lastLine, named, sfCount, blk, blkCur>>

----------------------------------------------------------------------------
(* LcovParser.parse, one raw line per step *)

NoLine == Line("", <<>>)
NoAnalysis == [changedFiles |-> <<>>, summary |-> <<>>]
NoCheck == [threshold |-> 0, result |-> FALSE, error |-> "none"]
NoGating == [mode |-> "none"]

Init ==
    /\ pc = "parsing"
    /\ n = 0
    /\ files = <<>>
    /\ currentFile = Null
    /\ currentFunctions = <<>>
    /\ currentLines = <<>>
    /\ currentBranches = <<>>
    /\ alias = ""
    /\ summary = ZeroSummary
    /\ lastLine = NoLine
    /\ named = {}
    /\ sfCount = 0
    /\ blk = <<>>
    /\ blkCur = ""
    /\ blkOpen = FALSE
    /\ closedAt = <<>>
    /\ changeset = <<>>
    /\ analysis = NoAnalysis
    /\ check = NoCheck
    /\ gating = NoGating
    /\ OutInit

\* the next raw line of the input, if it survives trim() and the filter
Reads(raw, prefix) ==
    /\ pc = "parsing"
    /\ n < MaxLen
    /\ NonEmpty(Trim(raw))
    /\ StartsWith(Trim(raw), prefix)
    /\ n' = n + 1
    /\ Note(raw)
    /\ UNCHANGED <<pc, summary, anVars, outVars>>

\* SF:<path>
ParseSF ==
    \E raw \in RawLines :
        /\ Reads(raw, "SF:")
        /\ files' = FlushOnSF(files, currentFile, currentFunctions,
                              currentLines, currentBranches)
        /\ currentFile' = Open(Trim(raw).parts[1])
        /\ currentFunctions' = <<>>
        /\ currentLines' = <<>>
        /\ currentBranches' = <<>>
        /\ alias' = ""

ParseFN ==
    \E raw \in RawLines :
        /\ Reads(raw, "FN:")
        /\ currentFunctions' = PushFunction(currentFunctions, Trim(raw).parts)
        /\ files' = Shared(files, alias, currentFunctions', currentLines, currentBranches)
        /\ UNCHANGED <<currentFile, currentLines, currentBranches, alias>>

ParseFNDA ==
    \E raw \in RawLines :
        /\ Reads(raw, "FNDA:")
        /\ currentFunctions' = SetFunctionHit(currentFunctions, Trim(raw).parts)
        /\ files' = Shared(files, alias, currentFunctions', currentLines, currentBranches)
        /\ UNCHANGED <<currentFile, currentLines, currentBranches, alias>>

ParseDA ==
    \E raw \in RawLines :
        /\ Reads(raw, "DA:")
        /\ currentLines' = PushLine(currentLines, Trim(raw).parts)
        /\ files' = Shared(files, alias, currentFunctions, currentLines', currentBranches)
        /\ UNCHANGED <<currentFile, currentFunctions, currentBranches, alias>>

ParseBRDA ==
    \E raw \in RawLines :
        /\ Reads(raw, "BRDA:")
        /\ currentBranches' = PushBranch(currentBranches, Trim(raw).parts)
        /\ files' = Shared(files, alias, currentFunctions, currentLines, currentBranches')
        /\ UNCHANGED <<currentFile, currentFunctions, currentLines, alias>>

ParseEndOfRecord ==
    \E raw \in RawLines :
        /\ Reads(raw, "end_of_record")
        /\ IF HasPath(currentFile)
           THEN /\ files' = MapSet(files, currentFile.path,
                                   FinalizeFileCoverage(currentFile, currentFunctions,
                                                        currentLines, currentBranches))
                /\ currentFile' = Null
                /\ alias' = currentFile.path
           ELSE UNCHANGED <<files, currentFile, alias>>
        /\ UNCHANGED <<currentFunctions, currentLines, currentBranches>>

RecognizedTags == {"SF:", "FN:", "FNDA:", "DA:", "BRDA:", "end_of_record"}

\* mutant: a line that matches no branch closes the record
SkipUnrecognized_Closes ==
    \E raw \in RawLines :
        /\ pc = "parsing"
        /\ n < MaxLen
        /\ NonEmpty(Trim(raw))
        /\ \A t \in RecognizedTags : ~StartsWith(Trim(raw), t)
        /\ n' = n + 1
        /\ Note(raw)
        /\ files' = FlushOnSF(files, currentFile, currentFunctions,
                              currentLines, currentBranches)
        /\ currentFile' = Null
        /\ UNCHANGED <<pc, currentFunctions, currentLines, currentBranches,
                       alias, summary, anVars, outVars>>

\* a line that matches no branch of the if-chain
SkipUnrecognized ==
    \E raw \in RawLines :
        /\ pc = "parsing"
        /\ n < MaxLen
        /\ NonEmpty(Trim(raw))
        /\ \A t \in RecognizedTags : ~StartsWith(Trim(raw), t)
        /\ n' = n + 1
        /\ Note(raw)
        /\ UNCHANGED <<pc, parseVars, anVars, outVars>>

\* a line the filter drops (empty after trim)
DropBlank ==
    \E raw \in RawLines :
        /\ pc = "parsing"
        /\ n < MaxLen
        /\ ~NonEmpty(Trim(raw))
        /\ n' = n + 1
        /\ Note(raw)
        /\ UNCHANGED <<pc, parseVars, anVars, outVars>>

\* end of input: flush an open accumulator, compute the summary, return
Finish ==
    /\ pc = "parsing"
    /\ files' = FlushAtEnd(files, currentFile, currentFunctions,
                           currentLines, currentBranches)
    /\ summary' = CalculateSummary(files')
    /\ pc' = "parsed"
    /\ NoteEnd
    /\ UNCHANGED <<n, currentFile, currentFunctions, currentLines, currentBranches,
                   alias, anVars, outVars>>

Next ==
    \/ ParseSF
    \/ ParseFN
    \/ ParseFNDA
    \/ ParseDA
    \/ ParseBRDA
    \/ ParseEndOfRecord
    \/ SkipUnrecognized
    \/ DropBlank
    \/ Finish

Spec == Init /\ [][Next]_vars

\* the paths a report of this model can hold
Paths == {"a", "b"}

----------------------------------------------------------------------------
(* CoverageAnalyzer *)

\* Math.round(((hit / found) * 100) * 100): the percentage in hundredths.
\* The double arithmetic of the code gives this integer for every
\* found < 160, which covers the counts of this model.
RoundPct(hit, found) == (2 * 10000 * hit + found) \div (2 * found)

\* mutant: nothing found counts as nothing covered
Percentage_EmptyIsZero(hit, found) ==
    IF found > 0 THEN RoundPct(hit, found) ELSE 0

\* `found > 0 ? (hit / found) * 100 : 100`, then rounded to 2 decimals
Percentage(hit, found) ==
    IF found > 0 THEN RoundPct(hit, found) ELSE 10000

\* mutant: the overall percentage as the mean of the three percentages
CalculateFileAnalysis_Mean(coverage) ==
    LET sm == coverage.summary
        lp == Percentage(sm.linesHit, sm.linesFound)
        fp == Percentage(sm.functionsHit, sm.functionsFound)
        bp == Percentage(sm.branchesHit, sm.branchesFound)
    IN [totalLines |-> sm.linesFound,
        coveredLines |-> sm.linesHit,
        totalFunctions |-> sm.functionsFound,
        coveredFunctions |-> sm.functionsHit,
        totalBranches |-> sm.branchesFound,
        coveredBranches |-> sm.branchesHit,
        linesCoveragePercentage |-> lp,
        functionsCoveragePercentage |-> fp,
        branchesCoveragePercentage |-> bp,
        overallCoveragePercentage |-> (lp + fp + bp) \div 3]

CalculateFileAnalysis(coverage) ==
    LET sm == coverage.summary
        totalElements == sm.linesFound + sm.functionsFound + sm.branchesFound
        coveredElements == sm.linesHit + sm.functionsHit + sm.branchesHit
    IN [totalLines |-> sm.linesFound,
        coveredLines |-> sm.linesHit,
        totalFunctions |-> sm.functionsFound,
        coveredFunctions |-> sm.functionsHit,
        totalBranches |-> sm.branchesFound,
        coveredBranches |-> sm.branchesHit,
        linesCoveragePercentage |-> Percentage(sm.linesHit, sm.linesFound),
        functionsCoveragePercentage |->
            Percentage(sm.functionsHit, sm.functionsFound),
        branchesCoveragePercentage |->
            Percentage(sm.branchesHit, sm.branchesFound),
        overallCoveragePercentage |-> Percentage(coveredElements, totalElements)]

\* mutant: a file without report entry counts as fully covered
NoCoverageAnalysis_Full ==
    [totalLines |-> 0, coveredLines |-> 0,
     totalFunctions |-> 0, coveredFunctions |-> 0,
     totalBranches |-> 0, coveredBranches |-> 0,
     linesCoveragePercentage |-> 10000,
     functionsCoveragePercentage |-> 10000,
     branchesCoveragePercentage |-> 10000,
     overallCoveragePercentage |-> 10000]

\* the analysis of a changed file without report entry
NoCoverageAnalysis ==
    [totalLines |-> 0, coveredLines |-> 0,
     totalFunctions |-> 0, coveredFunctions |-> 0,
     totalBranches |-> 0, coveredBranches |-> 0,
     linesCoveragePercentage |-> 0,
     functionsCoveragePercentage |-> 0,
     branchesCoveragePercentage |-> 0,
     overallCoveragePercentage |-> 0]

\* the absent `coverage` property
NoCoverage == [path |-> ""]

\* changeset.files.map(...): a changed file is its path here (its status is
\* copied through and read by nothing)
AnalyzeFile(m, path) ==
    IF path \in DOMAIN m
    THEN [path |-> path, hasCoverage |-> TRUE, coverage |-> m[path],
          analysis |-> CalculateFileAnalysis(m[path])]
    ELSE [path |-> path, hasCoverage |-> FALSE, coverage |-> NoCoverage,
          analysis |-> NoCoverageAnalysis]

\* `for (const file of changedFiles) total += file.analysis[field]`
RECURSIVE Total(_, _)
Total(changedFiles, field) ==
    IF changedFiles = <<>> THEN 0
    ELSE Head(changedFiles).analysis[field] + Total(Tail(changedFiles), field)

\* mutant: the aggregate overall percentage as the mean of the files'
AnalyzerSummary_MeanOfFiles(changedFiles) ==
    LET filesWithCoverage ==
            Len(SelectSeq(changedFiles, LAMBDA f : f.hasCoverage))
        totalLines == Total(changedFiles, "totalLines")
        coveredLines == Total(changedFiles, "coveredLines")
        totalFunctions == Total(changedFiles, "totalFunctions")
        coveredFunctions == Total(changedFiles, "coveredFunctions")
        totalBranches == Total(changedFiles, "totalBranches")
        coveredBranches == Total(changedFiles, "coveredBranches")
    IN [totalChangedFiles |-> Len(changedFiles),
        filesWithCoverage |-> filesWithCoverage,
        filesWithoutCoverage |-> Len(changedFiles) - filesWithCoverage,
        overallCoverage |->
            [totalLines |-> totalLines,
             coveredLines |-> coveredLines,
             totalFunctions |-> totalFunctions,
             coveredFunctions |-> coveredFunctions,
             totalBranches |-> totalBranches,
             coveredBranches |-> coveredBranches,
             linesCoveragePercentage |-> Percentage(coveredLines, totalLines),
             functionsCoveragePercentage |->
                 Percentage(coveredFunctions, totalFunctions),
             branchesCoveragePercentage |->
                 Percentage(coveredBranches, totalBranches),
             overallCoveragePercentage |->
                 IF changedFiles = <<>> THEN 10000
                 ELSE Total(changedFiles, "overallCoveragePercentage")
                        \div Len(changedFiles)]]

\* CoverageAnalyzer.calculateSummary
AnalyzerSummary(changedFiles) ==
    LET filesWithCoverage ==
            Len(SelectSeq(changedFiles, LAMBDA f : f.hasCoverage))
        totalLines == Total(changedFiles, "totalLines")
        coveredLines == Total(changedFiles, "coveredLines")
        totalFunctions == Total(changedFiles, "totalFunctions")
        coveredFunctions == Total(changedFiles, "coveredFunctions")
        totalBranches == Total(changedFiles, "totalBranches")
        coveredBranches == Total(changedFiles, "coveredBranches")
        totalElements == totalLines + totalFunctions + totalBranches
        coveredElements == coveredLines + coveredFunctions + coveredBranches
    IN [totalChangedFiles |-> Len(changedFiles),
        filesWithCoverage |-> filesWithCoverage,
        filesWithoutCoverage |-> Len(changedFiles) - filesWithCoverage,
        overallCoverage |->
            [totalLines |-> totalLines,
             coveredLines |-> coveredLines,
             totalFunctions |-> totalFunctions,
             coveredFunctions |-> coveredFunctions,
             totalBranches |-> totalBranches,
             coveredBranches |-> coveredBranches,
             linesCoveragePercentage |-> Percentage(coveredLines, totalLines),
             functionsCoveragePercentage |->
                 Percentage(coveredFunctions, totalFunctions),
             branchesCoveragePercentage |->
                 Percentage(coveredBranches, totalBranches),
             overallCoveragePercentage |->
                 Percentage(coveredElements, totalElements)]]

\* CoverageAnalyzer.analyze
AnalyzeResult(cs, m) ==
    LET changedFiles == [i \in 1..Len(cs) |-> AnalyzeFile(m, cs[i])]
    IN [changedFiles |-> changedFiles, summary |-> AnalyzerSummary(changedFiles)]

\* mutant: a threshold the percentage only equals is not met
MeetsCoverageThreshold_Strict(an, threshold) ==
    an.summary.overallCoverage.overallCoveragePercentage > threshold

\* CoverageAnalyzer.meetsCoverageThreshold(analysis, threshold): one
\* comparison; the method has no baseline parameter and no throw
MeetsCoverageThreshold(an, threshold) ==
    an.summary.overallCoverage.overallCoveragePercentage >= threshold

----------------------------------------------------------------------------
(* CoverageGating *)

\* Math.round((linesHit / linesFound) * 100), as hundredths of a percent
RoundWhole(hit, found) == 100 * ((2 * 100 * hit + found) \div (2 * found))

\* mutant: a report without lines has a baseline of 0
ProjectCoverage_EmptyIsZero(reportSummary) ==
    IF reportSummary.linesFound > 0
    THEN RoundWhole(reportSummary.linesHit, reportSummary.linesFound)
    ELSE 0

\* the project baseline: line coverage of the whole report
ProjectCoverage(reportSummary) ==
    IF reportSummary.linesFound > 0
    THEN RoundWhole(reportSummary.linesHit, reportSummary.linesFound)
    ELSE 10000

\* mutant: the baseline branch always carries its error text
EvaluateBaseline_AlwaysError(an, reportSummary, threshold) ==
    LET prCoveragePercentage ==
            an.summary.overallCoverage.overallCoveragePercentage
        overallProjectCoveragePercentage == ProjectCoverage(reportSummary)
        meets == prCoveragePercentage >= overallProjectCoveragePercentage
    IN [meetsThreshold |-> meets,
        threshold |-> threshold,
        mode |-> "baseline",
        prCoveragePercentage |-> prCoveragePercentage,
        overallProjectCoveragePercentage |-> overallProjectCoveragePercentage,
        description |->
            IF meets THEN "meets or exceeds overall project coverage"
            ELSE "is below overall project coverage",
        errorMessage |-> "is lower than overall project coverage"]

\* the branch `threshold === 0` of evaluate.  The texts are kept by their
\* wording.
EvaluateBaseline(an, reportSummary, threshold) ==
    LET prCoveragePercentage ==
            an.summary.overallCoverage.overallCoveragePercentage
        overallProjectCoveragePercentage == ProjectCoverage(reportSummary)
        meets == prCoveragePercentage >= overallProjectCoveragePercentage
    IN [meetsThreshold |-> meets,
        threshold |-> threshold,
        mode |-> "baseline",
        prCoveragePercentage |-> prCoveragePercentage,
        overallProjectCoveragePercentage |-> overallProjectCoveragePercentage,
        description |->
            IF meets THEN "meets or exceeds overall project coverage"
            ELSE "is below overall project coverage",
        errorMessage |->
            IF meets THEN "undefined"
            ELSE "is lower than overall project coverage"]

\* mutant: a percentage that only equals the threshold fails
EvaluateStandard_Strict(an, reportSummary, threshold) ==
    LET prCoveragePercentage ==
            an.summary.overallCoverage.overallCoveragePercentage
        meets == prCoveragePercentage > threshold
    IN [meetsThreshold |-> meets,
        threshold |-> threshold,
        mode |-> "standard",
        prCoveragePercentage |-> prCoveragePercentage,
        overallProjectCoveragePercentage |-> ProjectCoverage(reportSummary),
        description |->
            IF meets THEN "meets or exceeds threshold" ELSE "is below threshold",
        errorMessage |-> IF meets THEN "undefined" ELSE "is below threshold"]

\* the else branch of evaluate
EvaluateStandard(an, reportSummary, threshold) ==
    LET prCoveragePercentage ==
            an.summary.overallCoverage.overallCoveragePercentage
        meets == prCoveragePercentage >= threshold
    IN [meetsThreshold |-> meets,
        threshold |-> threshold,
        mode |-> "standard",
        prCoveragePercentage |-> prCoveragePercentage,
        overallProjectCoveragePercentage |-> ProjectCoverage(reportSummary),
        description |->
            IF meets THEN "meets or exceeds threshold" ELSE "is below threshold",
        errorMessage |-> IF meets THEN "undefined" ELSE "is below threshold"]

\* CoverageGating.evaluate(analysis, lcovReport, threshold); of lcovReport
\* only the summary is read
Evaluate(an, reportSummary, threshold) ==
    IF threshold = 0
    THEN EvaluateBaseline(an, reportSummary, threshold)
    ELSE EvaluateStandard(an, reportSummary, threshold)

----------------------------------------------------------------------------
(* Analyzer and gating on parsed reports (specification SpecAn) *)

MaxChanged == 2    \* changed files per changeset

\* what parse returns for a block with the given numbers of entries
\* (found, hit) per dimension
MkFunctions(c) ==
    [i \in 1..c[1] |-> [name |-> IF i = 1 THEN <<"f">> ELSE <<"g", "h">>,
                        line |-> i,
                        hit |-> IF i <= c[2] THEN 1 ELSE 0]]
MkLines(c) ==
    [i \in 1..c[1] |-> [line |-> i, hit |-> IF i <= c[2] THEN 1 ELSE 0]]
MkBranches(c) ==
    [i \in 1..c[1] |-> [line |-> 1, block |-> 0, branch |-> i - 1,
                        taken |-> IF i <= c[2] THEN 1 ELSE 0]]
MkFile(path, shape) ==
    FinalizeFileCoverage(Open(path), MkFunctions(shape.f), MkLines(shape.l),
                         MkBranches(shape.b))

Shapes ==
    [l : {<<0, 0>>, <<1, 1>>, <<1, 0>>, <<3, 1>>, <<100, 0>>},
     f : {<<0, 0>>, <<2, 1>>},
     b : {<<0, 0>>, <<1, 1>>}]

ChangedPaths == {"a", "b", "c"}
ChangeLists == UNION {[1..k -> ChangedPaths] : k \in 0..MaxChanged}

\* thresholds, in hundredths of a percent
Thresholds == {0, 3333, 3334, 5000, 10000}

InitAn ==
    /\ pc = "parsed"
    /\ n = 0
    /\ \E S \in SUBSET Paths : \E sh \in [S -> Shapes] :
          files = [p \in S |-> MkFile(p, sh[p])]
    /\ summary = CalculateSummary(files)
    /\ currentFile = Null
    /\ currentFunctions = <<>>
    /\ currentLines = <<>>
    /\ currentBranches = <<>>
    /\ alias = ""
    /\ lastLine = NoLine
    /\ named = {}
    /\ sfCount = 0
    /\ blk = <<>>
    /\ blkCur = ""
    /\ blkOpen = FALSE
    /\ closedAt = <<>>
    /\ changeset = <<>>
    /\ analysis = NoAnalysis
    /\ check = NoCheck
    /\ gating = NoGating
    /\ OutInit

Analyze ==
    \E cs \in ChangeLists :
        /\ pc = "parsed"
        /\ changeset' = cs
        /\ analysis' = AnalyzeResult(cs, files)
        /\ pc' = "analyzed"
        /\ UNCHANGED <<n, parseVars, lastLine, histVars, check, gating,
                       outVars>>

CheckThreshold ==
    \E t \in Thresholds :
        /\ pc = "analyzed"
        /\ check' = [threshold |-> t,
                     result |-> MeetsCoverageThreshold(analysis, t),
                     error |-> "none"]
        /\ pc' = "checked"
        /\ UNCHANGED <<n, parseVars, lastLine, histVars, changeset, analysis, gating,
                       outVars>>

EvaluateGating ==
    \E t \in Thresholds :
        /\ pc = "analyzed"
        /\ gating' = Evaluate(analysis, summary, t)
        /\ pc' = "gated"
        /\ UNCHANGED <<n, parseVars, lastLine, histVars, changeset, analysis, check,
                       outVars>>

NextAn ==
    \/ Analyze
    \/ CheckThreshold
    \/ EvaluateGating

SpecAn == InitAn /\ [][NextAn]_vars

----------------------------------------------------------------------------
(* TreemapGenerator.generateTreemapData *)

\* the larger and the smaller of two numbers (Math.max, Math.min)
Max2(x, y) == IF x >= y THEN x ELSE y
MaxOf(S) == CHOOSE x \in S : \A y \in S : y <= x
MinOf(S) == CHOOSE x \in S : \A y \in S : x <= y

\* one step of the sort: x goes behind every entry whose line is not larger
InsertByLine(s, x) ==
    LET k == Cardinality({i \in 1..Len(s) : s[i].line <= x.line})
    IN SubSeq(s, 1, k) \o <<x>> \o SubSeq(s, k + 1, Len(s))

\* `functions.sort((a, b) => a.line - b.line)`: ascending by line, entries
\* of equal line keep their order (Array.prototype.sort is stable)
RECURSIVE SortByLine(_)
SortByLine(s) ==
    IF s = <<>> THEN <<>>
    ELSE InsertByLine(SortByLine(SubSeq(s, 1, Len(s) - 1)), s[Len(s)])

\* the file coverage after `fileCoverage.functions.sort(...)`: sort works on
\* the array it is called on, which is the array of the report's record
SortedInPlace(fileCoverage) ==
    [fileCoverage EXCEPT !.functions = SortByLine(@)]

\* `functions.findIndex(f => f.name === func.name && f.line === func.line)`,
\* counted from 1; 0 stands for -1
FindIndex(functions, func) ==
    LET hits == {i \in 1..Len(functions) :
                    /\ functions[i].name = func.name
                    /\ functions[i].line = func.line}
    IN IF hits = {} THEN 0 ELSE MinOf(hits)

\* mutant: the last function ends at the largest line of the file, the own
\* line + 10 is taken only when the file has no lines
GetFunctionLineCount_FallbackOnlyWhenEmpty(func, fileCoverage) ==
    LET functions == SortByLine(fileCoverage.functions)
        funcIndex == FindIndex(functions, func)
    IN IF funcIndex = 0 THEN 10
       ELSE IF funcIndex < Len(functions)
       THEN Max2(functions[funcIndex + 1].line - functions[funcIndex].line, 1)
       ELSE LET maxLine ==
                    IF fileCoverage.lines = <<>>
                    THEN functions[funcIndex].line + 10
                    ELSE MaxOf({fileCoverage.lines[i].line :
                                  i \in 1..Len(fileCoverage.lines)})
            IN Max2(maxLine - functions[funcIndex].line, 1)

\* TreemapGenerator.getFunctionLineCount(func, fileCoverage): the value it
\* returns.  What it does to fileCoverage is SortedInPlace.
GetFunctionLineCount(func, fileCoverage) ==
    LET functions == SortByLine(fileCoverage.functions)
        funcIndex == FindIndex(functions, func)
    IN IF funcIndex = 0 THEN 10
       ELSE IF funcIndex < Len(functions)
       THEN Max2(functions[funcIndex + 1].line - functions[funcIndex].line, 1)
       ELSE LET maxLine ==
                    MaxOf({fileCoverage.lines[i].line :
                             i \in 1..Len(fileCoverage.lines)}
                          \cup {functions[funcIndex].line + 10})
            IN Max2(maxLine - functions[funcIndex].line, 1)

\* mutant: every line record of the range counts, hit or not
GetFunctionCoveredLines_AnyHit(func, fileCoverage) ==
    LET functionLineCount == GetFunctionLineCount(func, fileCoverage)
        start == func.line
        end == start + functionLineCount
    IN Cardinality({i \in 1..Len(fileCoverage.lines) :
                       /\ fileCoverage.lines[i].line >= start
                       /\ fileCoverage.lines[i].line < end})

\* TreemapGenerator.getFunctionCoveredLines(func, fileCoverage): one count
\* per line record of the range with a positive hit count
GetFunctionCoveredLines(func, fileCoverage) ==
    LET functionLineCount == GetFunctionLineCount(func, fileCoverage)
        start == func.line
        end == start + functionLineCount
    IN Cardinality({i \in 1..Len(fileCoverage.lines) :
                       /\ fileCoverage.lines[i].line >= start
                       /\ fileCoverage.lines[i].line < end
                       /\ fileCoverage.lines[i].hit > 0})

\* a node without function name carries this in functionName
NoFunctionName == <<"undefined">>

\* mutant: a file without coverage is sized by its line count alone
NoCoverageNode_Unfloored(file) ==
    [file |-> file.path,
     value |-> file.analysis.totalLines,
     coverage |-> "none",
     lineCount |-> file.analysis.totalLines,
     coveredLines |-> 0,
     functionName |-> NoFunctionName]

\* the node of a changed file without coverage.  The display name of a node
\* (basename, or basename::function) is left out: it is a text made of the
\* fields file and functionName.
NoCoverageNode(file) ==
    [file |-> file.path,
     value |-> Max2(file.analysis.totalLines, 1),
     coverage |-> "none",
     lineCount |-> file.analysis.totalLines,
     coveredLines |-> 0,
     functionName |-> NoFunctionName]

\* the node of one function of a file with coverage
FunctionNode(file, func, fileCoverage) ==
    LET functionLines == GetFunctionLineCount(func, fileCoverage)
        coveredLines == GetFunctionCoveredLines(func, fileCoverage)
    IN [file |-> file.path,
        value |-> Max2(functionLines, 1),
        coverage |-> IF coveredLines = 0 THEN "none"
                     ELSE IF coveredLines = functionLines THEN "full"
                     ELSE "partial",
        lineCount |-> functionLines,
        coveredLines |-> coveredLines,
        functionName |-> func.name]

\* `for (const func of file.coverage.functions)`: the iterator reads entry k
\* of the array as the array is at that moment, and the first call of
\* getFunctionLineCount in the body has sorted that very array
RECURSIVE FunctionNodes(_, _, _)
FunctionNodes(file, fileCoverage, k) ==
    IF k > Len(fileCoverage.functions) THEN <<>>
    ELSE <<FunctionNode(file, fileCoverage.functions[k], fileCoverage)>>
           \o FunctionNodes(file, SortedInPlace(fileCoverage), k + 1)

\* the node of a file with coverage and without functions; the ratio is
\* linesCoveragePercentage / 100, compared with 0 and 1
WholeFileNode(file) ==
    [file |-> file.path,
     value |-> Max2(file.analysis.totalLines, 1),
     coverage |-> IF file.analysis.linesCoveragePercentage = 0 THEN "none"
                  ELSE IF file.analysis.linesCoveragePercentage = 10000
                  THEN "full"
                  ELSE "partial",
     lineCount |-> file.analysis.totalLines,
     coveredLines |-> file.analysis.coveredLines,
     functionName |-> NoFunctionName]

\* the loop over analysis.changedFiles from entry i on.  file.coverage is
\* the record object of the report (analyze stores the object it looked
\* up), so m, the report's map, is where the loop reads the record and
\* where the sort leaves it.  Result: the children and the map afterwards.
RECURSIVE TreemapLoop(_, _, _)
TreemapLoop(changedFiles, m, i) ==
    IF i > Len(changedFiles) THEN [children |-> <<>>, files |-> m]
    ELSE LET file == changedFiles[i]
         IN IF ~file.hasCoverage
            THEN LET rest == TreemapLoop(changedFiles, m, i + 1)
                 IN [children |-> <<NoCoverageNode(file)>> \o rest.children,
                     files |-> rest.files]
            ELSE IF Len(m[file.path].functions) > 0
            THEN LET rest == TreemapLoop(
                                changedFiles,
                                [m EXCEPT ![file.path] = SortedInPlace(@)],
                                i + 1)
                 IN [children |->
                         FunctionNodes(file, m[file.path], 1) \o rest.children,
                     files |-> rest.files]
            ELSE LET rest == TreemapLoop(changedFiles, m, i + 1)
                 IN [children |-> <<WholeFileNode(file)>> \o rest.children,
                     files |-> rest.files]

\* the analysis as the caller sees it once the report's records are as in m
SeenThrough(an, m) ==
    [an EXCEPT !.changedFiles =
        [i \in 1..Len(an.changedFiles) |->
            IF an.changedFiles[i].hasCoverage
            THEN [an.changedFiles[i] EXCEPT !.coverage = m[an.changedFiles[i].path]]
            ELSE an.changedFiles[i]]]

\* TreemapGenerator.generateTreemapData(analysis): children of the root
GenerateTreemapChildren(an, m) == TreemapLoop(an.changedFiles, m, 1).children

\* the report's map after generateTreemapData(analysis)
GenerateTreemapEffect(an, m) == TreemapLoop(an.changedFiles, m, 1).files

----------------------------------------------------------------------------
(* SpecTm: generateTreemapData applied to analyses of bounded reports *)

\* number of calls of generateTreemapData on one analysis
MaxCalls == 2

\* a FunctionCoverage entry as parse builds it
Fn(name, line, hit) == [name |-> <<name>>, line |-> line, hit |-> hit]
\* a LineCoverage entry
Ln(line, hit) == [line |-> line, hit |-> hit]

\* function lists in the order of their FN: lines: none, ascending,
\* descending, two on one line, one function twice, three out of order
FunctionLists ==
    {<<>>,
     <<Fn("f", 5, 1), Fn("g", 20, 0)>>,
     <<Fn("g", 20, 0), Fn("f", 5, 1)>>,
     <<Fn("f", 2, 1), Fn("g", 2, 0)>>,
     <<Fn("f", 1, 1), Fn("f", 1, 0), Fn("g", 5, 1)>>,
     <<Fn("h", 3, 1), Fn("f", 1, 1), Fn("g", 2, 0)>>}

\* line lists in the order of their DA: lines
LineLists ==
    {<<>>,
     <<Ln(30, 1)>>,
     <<Ln(7, 0)>>,
     <<Ln(5, 1), Ln(6, 0), Ln(20, 1), Ln(40, 0)>>,
     <<Ln(1, 1), Ln(1, 1), Ln(2, 0)>>,
     <<Ln(1, 1), Ln(2, 1), Ln(3, 1)>>}

TmShapes == [f : FunctionLists, l : LineLists]

InitTm ==
    /\ pc = "parsed"
    /\ n = 0
    /\ \E S \in SUBSET Paths : \E sh \in [S -> TmShapes] :
          files = [p \in S |->
                     FinalizeFileCoverage(Open(p), sh[p].f, sh[p].l, <<>>)]
    /\ summary = CalculateSummary(files)
    /\ currentFile = Null
    /\ currentFunctions = <<>>
    /\ currentLines = <<>>
    /\ currentBranches = <<>>
    /\ alias = ""
    /\ lastLine = NoLine
    /\ named = {}
    /\ sfCount = 0
    /\ blk = <<>>
    /\ blkCur = ""
    /\ blkOpen = FALSE
    /\ closedAt = <<>>
    /\ changeset = <<>>
    /\ analysis = NoAnalysis
    /\ check = NoCheck
    /\ gating = NoGating
    /\ OutInit

\* one call of generateTreemapData(analysis)
GenerateTreemapData ==
    /\ pc \in {"analyzed", "treemapped"}
    /\ Len(treemaps) < MaxCalls
    /\ treemaps' = Append(treemaps, GenerateTreemapChildren(analysis, files))
    /\ files' = GenerateTreemapEffect(analysis, files)
    /\ analysis' = SeenThrough(analysis, files')
    /\ pc' = "treemapped"
    /\ UNCHANGED <<n, currentFile, currentFunctions, currentLines,
                   currentBranches, alias, summary, lastLine, histVars,
                   changeset, check, gating, ckFile, regions, annotations,
                   runVars, prVars>>

NextTm ==
    \/ Analyze
    \/ GenerateTreemapData

SpecTm == InitTm /\ [][NextTm]_vars

----------------------------------------------------------------------------
(* ChecksService: the annotations for uncovered lines *)

\* one step of the sort: x goes behind every number that is not larger
InsertNumber(s, x) ==
    LET k == Cardinality({i \in 1..Len(s) : s[i] <= x})
    IN SubSeq(s, 1, k) \o <<x>> \o SubSeq(s, k + 1, Len(s))

\* `[...lines].sort((a, b) => a - b)`: a sorted copy
RECURSIVE SortAscending(_)
SortAscending(s) ==
    IF s = <<>> THEN <<>>
    ELSE InsertNumber(SortAscending(SubSeq(s, 1, Len(s) - 1)), s[Len(s)])

\* the scan `for (let i = 1; i < sorted.length; i++)` from position i on
\* (positions counted from 1), and the push of the last group behind it
RECURSIVE GroupLoop(_, _, _, _)
GroupLoop(sorted, i, groups, currentGroup) ==
    IF i > Len(sorted) THEN Append(groups, currentGroup)
    ELSE IF sorted[i] = sorted[i - 1] + 1
    THEN GroupLoop(sorted, i + 1, groups, Append(currentGroup, sorted[i]))
    ELSE GroupLoop(sorted, i + 1, Append(groups, currentGroup), <<sorted[i]>>)

\* mutant: the scan runs over the list as given
GroupConsecutiveLines_Unsorted(lines) ==
    IF Len(lines) = 0 THEN <<>>
    ELSE GroupLoop(lines, 2, <<>>, <<lines[1]>>)

\* ChecksService.groupConsecutiveLines(lines)
GroupConsecutiveLines(lines) ==
    IF Len(lines) = 0 THEN <<>>
    ELSE LET sorted == SortAscending(lines)
         IN GroupLoop(sorted, 2, <<>>, <<sorted[1]>>)

\* `file.coverage.lines.filter((line) => line.hit === 0).map((l) => l.line)`
IsUncovered(l) == l.hit = 0
UncoveredLines(fileCoverage) ==
    LET uncovered == SelectSeq(fileCoverage.lines, IsUncovered)
    IN [i \in 1..Len(uncovered) |-> uncovered[i].line]

\* the annotation of one group; the message is kept by its two forms
GroupAnnotation(path, group) ==
    [path |-> path,
     start_line |-> group[1],
     end_line |-> group[Len(group)],
     annotation_level |-> "warning",
     title |-> "Uncovered Lines",
     message |-> IF Len(group) = 1
                 THEN <<"Line", group[1], "is not covered by tests">>
                 ELSE <<"Lines", group[1], group[Len(group)],
                        "are not covered by tests">>]

\* `for (const group of lineGroups)`: one annotation per group
GroupAnnotations(path, groups) ==
    [g \in 1..Len(groups) |-> GroupAnnotation(path, groups[g])]

\* the groups generateUncoveredLineAnnotations(file) works on
LineGroups(file) ==
    IF ~file.hasCoverage THEN <<>>
    ELSE GroupConsecutiveLines(UncoveredLines(file.coverage))

\* ChecksService.generateUncoveredLineAnnotations(file)
GenerateUncoveredLineAnnotations(file) ==
    GroupAnnotations(file.path, LineGroups(file))

----------------------------------------------------------------------------
(* SpecGr: generateUncoveredLineAnnotations applied to bounded files *)

\* number of line records of a file, and the largest line number
MaxLines == 3
MaxLineNo == 4

\* the line lists of a file: any order, repeated numbers included
LineRecordLists ==
    UNION {[1..k -> [line : 1..MaxLineNo, hit : {0, 1}]] : k \in 0..MaxLines}

InitGr ==
    /\ pc = "analyzed"
    /\ n = 0
    /\ files = <<>>
    /\ summary = ZeroSummary
    /\ currentFile = Null
    /\ currentFunctions = <<>>
    /\ currentLines = <<>>
    /\ currentBranches = <<>>
    /\ alias = ""
    /\ lastLine = NoLine
    /\ named = {}
    /\ sfCount = 0
    /\ blk = <<>>
    /\ blkCur = ""
    /\ blkOpen = FALSE
    /\ closedAt = <<>>
    /\ changeset = <<>>
    /\ analysis = NoAnalysis
    /\ check = NoCheck
    /\ gating = NoGating
    /\ treemaps = <<>>
    /\ \/ ckFile = AnalyzeFile(<<>>, "a")
       \/ \E lines \in LineRecordLists :
             ckFile = AnalyzeFile(
                        [p \in {"a"} |->
                           FinalizeFileCoverage(Open(p), <<>>, lines, <<>>)],
                        "a")
    /\ regions = <<>>
    /\ annotations = <<>>
    /\ RunInit
    /\ PrInit

\* one call of generateUncoveredLineAnnotations(file)
UncoveredLineAnnotations ==
    /\ pc = "analyzed"
    /\ regions' = LineGroups(ckFile)
    /\ annotations' = GenerateUncoveredLineAnnotations(ckFile)
    /\ pc' = "annotated"
    /\ UNCHANGED <<n, parseVars, lastLine, histVars, anVars, treemaps, ckFile,
                   runVars, prVars>>

NextGr == UncoveredLineAnnotations

SpecGr == InitGr /\ [][NextGr]_vars

----------------------------------------------------------------------------
(* ChecksService.generateAnnotations and the conclusion of the check run *)

\* `private maxAnnotations = 50`
MaxAnnotations == 50

\* the annotation of a changed file without coverage
NoCoverageAnnotation(file) ==
    [path |-> file.path, start_line |-> 1, end_line |-> 1,
     annotation_level |-> "warning", title |-> "No Coverage Data",
     message |-> <<"This file has no coverage data">>]

IsUncoveredFunction(fn) == fn.hit = 0

\* ChecksService.generateUncoveredFunctionAnnotations(file)
GenerateUncoveredFunctionAnnotations(file) ==
    IF ~file.hasCoverage THEN <<>>
    ELSE LET uncoveredFunctions ==
                 SelectSeq(file.coverage.functions, IsUncoveredFunction)
         IN [k \in 1..Len(uncoveredFunctions) |->
               [path |-> file.path,
                start_line |-> uncoveredFunctions[k].line,
                end_line |-> uncoveredFunctions[k].line,
                annotation_level |-> "warning",
                title |-> "Uncovered Function",
                message |-> <<"Function", uncoveredFunctions[k].name,
                              "is not covered by tests">>]]

\* the notice of a file whose overall percentage is below 80; the text of
\* raw_details (the counts of file.analysis) is left out
LowCoverageAnnotation(file) ==
    [path |-> file.path, start_line |-> 1, end_line |-> 1,
     annotation_level |-> "notice", title |-> "Low Coverage",
     message |-> <<"File coverage is",
                   file.analysis.overallCoveragePercentage>>]

\* the body of the loop of generateAnnotations for one changed file
FileAnnotations(file) ==
    IF ~file.hasCoverage THEN <<NoCoverageAnnotation(file)>>
    ELSE GenerateUncoveredLineAnnotations(file)
           \o GenerateUncoveredFunctionAnnotations(file)
           \o (IF file.analysis.overallCoveragePercentage < 8000
               THEN <<LowCoverageAnnotation(file)>>
               ELSE <<>>)

\* `for (const file of analysis.changedFiles)` from entry i on
RECURSIVE CollectAnnotations(_, _)
CollectAnnotations(changedFiles, i) ==
    IF i > Len(changedFiles) THEN <<>>
    ELSE FileAnnotations(changedFiles[i])
           \o CollectAnnotations(changedFiles, i + 1)

IsFailure(a) == a.annotation_level = "failure"
IsWarning(a) == a.annotation_level = "warning"
IsNotice(a) == a.annotation_level = "notice"

\* mutant: the cut is made before the sort
PrioritizeAndLimitAnnotations_CutFirst(anns) ==
    LET cut == IF Len(anns) <= MaxAnnotations THEN anns
               ELSE SubSeq(anns, 1, MaxAnnotations)
    IN SelectSeq(cut, IsFailure) \o SelectSeq(cut, IsWarning)
         \o SelectSeq(cut, IsNotice)

\* ChecksService.prioritizeAndLimitAnnotations: a stable sort by level
\* (failure, warning, notice), cut after maxAnnotations entries
PrioritizeAndLimitAnnotations(anns) ==
    LET sorted == SelectSeq(anns, IsFailure) \o SelectSeq(anns, IsWarning)
                    \o SelectSeq(anns, IsNotice)
    IN IF Len(sorted) <= MaxAnnotations THEN sorted
       ELSE SubSeq(sorted, 1, MaxAnnotations)

\* ChecksService.generateAnnotations(analysis)
GenerateAnnotations(an) ==
    PrioritizeAndLimitAnnotations(CollectAnnotations(an.changedFiles, 1))

\* mutant: one of the two credentials is enough
IsEnabled_Either(githubAppId, githubAppPrivateKey) ==
    githubAppId \/ githubAppPrivateKey

\* ChecksService.isEnabled(githubAppId, githubAppPrivateKey):
\* `!!(githubAppId && githubAppPrivateKey)`; an input is TRUE when a
\* non-empty text was supplied for it
IsEnabled(githubAppId, githubAppPrivateKey) ==
    githubAppId /\ githubAppPrivateKey

\* ChecksService.determineCheckConclusion(analysis)
DetermineCheckConclusion(an) ==
    IF an.summary.filesWithoutCoverage > 0 THEN "neutral"
    ELSE IF an.summary.overallCoverage.overallCoveragePercentage >= 8000
    THEN "success"
    ELSE "neutral"

----------------------------------------------------------------------------
(* PrCommentService: the comment of the action on the pull request.  A text
   is the sequence of its pieces, so that one text can be contained in
   another. *)

\* PrCommentService.getCommentTitle()
GetCommentTitle(label) ==
    IF label /= NoLabel
    THEN <<"Coveragemap Action", ": ">> \o label
    ELSE <<"Coveragemap Action">>

\* "## " followed by the title: the first line of the body without its
\* line end, and the text findExistingComment looks for
Heading(label) == <<"## ">> \o GetCommentTitle(label)

\* generateCommentBody(...): the heading line and the report below it
GenerateCommentBody(label) == Heading(label) \o <<"\n\n", "report">>

\* `body.includes(text)`
Includes(body, text) ==
    \E i \in 0..(Len(body) - Len(text)) :
        SubSeq(body, i + 1, i + Len(text)) = text

\* the number of comments `issues.listComments` returns when no page size
\* is asked for
PerPage == 30

\* `comments.data` of `await this.octokit.rest.issues.listComments(...)`
ListComments(all) == SubSeq(all, 1, MinOf({Len(all), PerPage}))

\* PrCommentService.findExistingComment(): the id of the first listed
\* comment whose body contains the heading, or 0 for null
FindExistingComment(all, label) ==
    LET data == ListComments(all)
        found == {i \in 1..Len(data) : Includes(data[i].body, Heading(label))}
    IN IF found = {} THEN 0 ELSE data[MinOf(found)].id

\* the id GitHub gives to the next comment
NextCommentId(all) ==
    IF all = <<>> THEN 1 ELSE MaxOf({all[i].id : i \in 1..Len(all)}) + 1

\* a comment written by a person
UserComment(id) ==
    [id |-> id, body |-> <<"LGTM">>, byAction |-> FALSE, label |-> NoLabel]

\* `issues.updateComment({ comment_id, body })`
UpdateComment(all, id, body) ==
    [i \in 1..Len(all) |->
        IF all[i].id = id THEN [all[i] EXCEPT !.body = body] ELSE all[i]]

\* `issues.createComment({ issue_number, body })`; the label of the run
\* that created the comment is kept beside it
CreateComment(all, body, label) ==
    Append(all, [id |-> NextCommentId(all), body |-> body, byAction |-> TRUE,
                 label |-> label])

\* postComment(...) of a service with this label, all calls succeeding
PostCommentDone(label) ==
    LET existingCommentId == FindExistingComment(comments, label)
        body == GenerateCommentBody(label)
    IN IF existingCommentId /= 0
       THEN /\ comments' = UpdateComment(comments, existingCommentId, body)
            /\ posts' = Append(posts, [label |-> label, op |-> "update",
                                       id |-> existingCommentId])
       ELSE /\ comments' = CreateComment(comments, body, label)
            /\ posts' = Append(posts, [label |-> label, op |-> "create",
                                       id |-> NextCommentId(comments)])

\* postComment(...) throws: no pull request in the context, or a call of
\* the API is rejected
PostCommentFailed(label) ==
    /\ UNCHANGED comments
    /\ posts' = Append(posts, [label |-> label, op |-> "failed", id |-> 0])

----------------------------------------------------------------------------
(* SpecRun: run() of index.ts, one step of the pipeline per action *)

\* the calls of core that run's outcome consists of
SetFailed(message) == [call |-> "setFailed", message |-> message]
Warning(message) == [call |-> "warning", message |-> message]
SuccessInfo == [call |-> "info", message |-> "completed successfully"]

\* the reports parseLcovReport returns in the runs of the model: per file
\* no line, one hit line, one line without hit, or five lines with four hit
RunShapes ==
    [l : {<<0, 0>>, <<1, 1>>, <<1, 0>>, <<5, 4>>}, f : {<<0, 0>>},
     b : {<<0, 0>>}]

\* the labels of the runs of the model: none, or "unit"
RunLabels == {NoLabel, <<"unit">>}

InitRun ==
    /\ pc = "getInputs"
    /\ n = 0
    /\ files = <<>>
    /\ summary = ZeroSummary
    /\ currentFile = Null
    /\ currentFunctions = <<>>
    /\ currentLines = <<>>
    /\ currentBranches = <<>>
    /\ alias = ""
    /\ lastLine = NoLine
    /\ named = {}
    /\ sfCount = 0
    /\ blk = <<>>
    /\ blkCur = ""
    /\ blkOpen = FALSE
    /\ closedAt = <<>>
    /\ changeset = <<>>
    /\ analysis = NoAnalysis
    /\ check = NoCheck
    /\ gating = NoGating
    /\ OutInit

\* the variables no step of run writes
restVars == <<n, currentFile, currentFunctions, currentLines, currentBranches,
              alias, lastLine, histVars, check, ckFile, regions>>

\* the variables the steps other than postPrComment do not write
idleVars == <<restVars, prVars>>

\* `catch (error) { core.setFailed(errorMessage) }` of run, entered from
\* the step that threw
Caught(step, message) ==
    /\ coreLog' = Append(coreLog, SetFailed(message))
    /\ thrown' = step
    /\ pc' = "done"

\* getInputs(): core.getInput("github-token", { required: true }) throws
\* when the token is not supplied
GetInputs ==
    /\ pc = "getInputs"
    /\ \/ /\ \E t \in Thresholds, id \in BOOLEAN, key \in BOOLEAN,
                   label \in RunLabels :
                inputs' = [coverageThreshold |-> t, githubAppId |-> id,
                           githubAppPrivateKey |-> key, label |-> label]
          /\ pc' = "detectChangeset"
          /\ UNCHANGED <<coreLog, thrown>>
       \/ /\ Caught("getInputs", "Input required and not supplied: github-token")
          /\ UNCHANGED inputs
    /\ UNCHANGED <<idleVars, files, summary, changeset, analysis, gating,
                   treemaps, annotations, conclusion>>

\* detectChangeset(...): the changed files, or the exception of git
DetectChangeset ==
    /\ pc = "detectChangeset"
    /\ \/ /\ \E cs \in ChangeLists : changeset' = cs
          /\ pc' = "parseLcovReport"
          /\ UNCHANGED <<coreLog, thrown>>
       \/ /\ Caught("detectChangeset", "Git error")
          /\ UNCHANGED changeset
    /\ UNCHANGED <<idleVars, files, summary, analysis, gating, treemaps,
                   annotations, inputs, conclusion>>

\* parseLcovReport(lcovFile): the report, or the exception of parseFile
ParseLcovReport ==
    /\ pc = "parseLcovReport"
    /\ \/ /\ \E S \in SUBSET Paths : \E sh \in [S -> RunShapes] :
                files' = [p \in S |-> MkFile(p, sh[p])]
          /\ summary' = CalculateSummary(files')
          /\ pc' = "analyzeCoverageAndGating"
          /\ UNCHANGED <<coreLog, thrown>>
       \/ /\ Caught("parseLcovReport", "LCOV file not found")
          /\ UNCHANGED <<files, summary>>
    /\ UNCHANGED <<idleVars, changeset, analysis, gating, treemaps,
                   annotations, inputs, conclusion>>

\* analyzeCoverageAndGating(changeset, lcovReport, threshold): analyze,
\* evaluate, core.setOutput; setOutput throws when the output file of the
\* runner cannot be written
AnalyzeCoverageAndGating ==
    /\ pc = "analyzeCoverageAndGating"
    /\ \/ /\ analysis' = AnalyzeResult(changeset, files)
          /\ gating' = Evaluate(analysis', summary, inputs.coverageThreshold)
          /\ pc' = "generateAndUploadTreemap"
          /\ UNCHANGED <<coreLog, thrown>>
       \/ /\ Caught("analyzeCoverageAndGating", "Unable to write output")
          /\ UNCHANGED <<analysis, gating>>
    /\ UNCHANGED <<idleVars, files, summary, changeset, treemaps, annotations,
                   inputs, conclusion>>

\* generateAndUploadTreemap(analysis): skipped without a file with
\* coverage; otherwise generatePNG starts with generateTreemapData, and an
\* exception of rendering or upload ends in core.warning
GenerateAndUploadTreemap ==
    /\ pc = "generateAndUploadTreemap"
    /\ IF \A i \in 1..Len(analysis.changedFiles) :
              ~analysis.changedFiles[i].hasCoverage
       THEN UNCHANGED <<files, analysis, treemaps, coreLog>>
       ELSE /\ treemaps' =
                 Append(treemaps, GenerateTreemapChildren(analysis, files))
            /\ files' = GenerateTreemapEffect(analysis, files)
            /\ analysis' = SeenThrough(analysis, files')
            /\ \/ UNCHANGED coreLog
               \/ coreLog' =
                    Append(coreLog, Warning("Failed to generate treemap"))
    /\ pc' = "postPrComment"
    /\ UNCHANGED <<idleVars, summary, changeset, gating, annotations, inputs,
                   conclusion, thrown>>

\* mutant: an exception of postComment leaves postPrComment
PostPrComment_Throws ==
    /\ pc = "postPrComment"
    /\ \/ /\ PostCommentDone(inputs.label)
          /\ pc' = "postCheckAnnotations"
          /\ UNCHANGED <<coreLog, thrown>>
       \/ /\ PostCommentFailed(inputs.label)
          /\ Caught("postPrComment", "Failed to post PR comment")
    /\ UNCHANGED <<restVars, files, summary, changeset, analysis, gating,
                   treemaps, annotations, inputs, conclusion>>

\* postPrComment(...): the comment is posted, or the exception of
\* postComment ends in core.warning
PostPrComment ==
    /\ pc = "postPrComment"
    /\ \/ /\ PostCommentDone(inputs.label)
          /\ UNCHANGED coreLog
       \/ /\ PostCommentFailed(inputs.label)
          /\ coreLog' = Append(coreLog, Warning("Failed to post PR comment"))
    /\ pc' = "postCheckAnnotations"
    /\ UNCHANGED <<restVars, files, summary, changeset, analysis, gating,
                   treemaps, annotations, inputs, conclusion, thrown>>

\* postCheckAnnotations(...): skipped without GitHub App credentials and
\* without annotations; otherwise the check run is created with the
\* conclusion of determineCheckConclusion, or an exception on the way
\* (artifact, authentication, checks.create) ends in core.warning
PostCheckAnnotations ==
    /\ pc = "postCheckAnnotations"
    /\ IF ~IsEnabled(inputs.githubAppId, inputs.githubAppPrivateKey)
       THEN UNCHANGED <<annotations, conclusion, coreLog>>
       ELSE /\ annotations' = GenerateAnnotations(analysis)
            /\ IF Len(annotations') = 0
               THEN UNCHANGED <<conclusion, coreLog>>
               ELSE \/ /\ conclusion' = DetermineCheckConclusion(analysis)
                       /\ UNCHANGED coreLog
                    \/ /\ coreLog' =
                            Append(coreLog,
                                   Warning("Failed to post check annotations"))
                       /\ UNCHANGED conclusion
    /\ pc' = "gate"
    /\ UNCHANGED <<idleVars, files, summary, changeset, analysis, gating,
                   treemaps, inputs, thrown>>

\* the end of run: setFailed with the text of the gating result, or the
\* success message
Gate ==
    /\ pc = "gate"
    /\ coreLog' =
         Append(coreLog,
                IF ~gating.meetsThreshold
                THEN SetFailed(IF gating.errorMessage /= "undefined"
                               THEN gating.errorMessage
                               ELSE "Coverage threshold not met.")
                ELSE SuccessInfo)
    /\ pc' = "done"
    /\ UNCHANGED <<idleVars, files, summary, changeset, analysis, gating,
                   treemaps, annotations, inputs, conclusion, thrown>>

NextRun ==
    \/ GetInputs
    \/ DetectChangeset
    \/ ParseLcovReport
    \/ AnalyzeCoverageAndGating
    \/ GenerateAndUploadTreemap
    \/ PostPrComment
    \/ PostCheckAnnotations
    \/ Gate

SpecRun == InitRun /\ [][NextRun]_vars

----------------------------------------------------------------------------
(* Claims about LcovParser.parse (specification Spec) *)

Dimensions == {"functions", "lines", "branches"}

Positive(dim, e) == IF dim = "branches" THEN e.taken > 0 ELSE e.hit > 0
NumPositive(dim, list) == Len(SelectSeq(list, LAMBDA e : Positive(dim, e)))
Found(sm, dim) ==
    CASE dim = "functions" -> sm.functionsFound
      [] dim = "lines" -> sm.linesFound
      [] dim = "branches" -> sm.branchesFound
Hit(sm, dim) ==
    CASE dim = "functions" -> sm.functionsHit
      [] dim = "lines" -> sm.linesHit
      [] dim = "branches" -> sm.branchesHit

\* C1: in every returned Report, for every stored file record and each of
\* the three dimensions, summary.found is the length of the record's list
\* and summary.hit the number of its entries with a hit/taken value > 0.
C1_SummaryMatchesLists ==
    pc = "parsed" =>
        \A p \in DOMAIN files : \A dim \in Dimensions :
            /\ Found(files[p].summary, dim) = Len(files[p][dim])
            /\ Hit(files[p].summary, dim) = NumPositive(dim, files[p][dim])

\* C2: an input of N blocks (SF: lines) with pairwise distinct non-empty
\* paths parses to exactly N file records, however each block is closed
\* (end_of_record, the next SF:, the end of the input) and whatever blank
\* or padded lines it holds.
C2_OneRecordPerBlock ==
    (pc = "parsed" /\ sfCount = Cardinality(named)) =>
        /\ Cardinality(DOMAIN files) = sfCount
        /\ summary.totalFiles = sfCount

\* two blocks, the first closed only by the next SF:, a line with
\* surrounding whitespace, the last only by the end of the input
C2_Witness ==
    /\ pc = "parsed"
    /\ n = 2
    /\ sfCount = 2
    /\ Cardinality(named) = 2
    /\ lastLine.tag = "SF:"
    /\ lastLine.pad
    /\ HasPath(currentFile)

GlobalSum(field) ==
    LET v(p) == IF p \in DOMAIN files THEN files[p].summary[field] ELSE 0
    IN v("a") + v("b")

\* C3: the Report holds exactly one record per distinct path, built from
\* the last block that named the path (its lists are the record lines read
\* since the last SF: of that path, its summary counts those the block held
\* when it was closed; nothing of an earlier block of the path remains), and
\* the global summary is the field-wise sum of the stored records'
\* summaries, totalFiles being their number.
C3_LastBlockWins ==
    pc = "parsed" =>
        /\ DOMAIN files = named
        /\ named \subseteq Paths
        /\ \A p \in DOMAIN files :
            LET whole == Replay(blk[p])
                closed == Replay(SubSeq(blk[p], 1, closedAt[p]))
            IN /\ files[p].path = p
               /\ \A dim \in Dimensions :
                    /\ files[p][dim] = whole[dim]
                    /\ Found(files[p].summary, dim) = Len(closed[dim])
                    /\ Hit(files[p].summary, dim) = NumPositive(dim, closed[dim])
        /\ summary.totalFiles = Cardinality(named)
        /\ \A field \in {"functionsFound", "functionsHit", "linesFound",
                         "linesHit", "branchesFound", "branchesHit"} :
            summary[field] = GlobalSum(field)

\* path a named by two blocks, the last one holding one record line; a
\* second path stored beside it is not needed for the case
C3_Witness ==
    /\ pc = "parsed"
    /\ sfCount = 2
    /\ named = {"a"}
    /\ n = 4
    /\ Len(blk["a"]) = 1
    /\ files["a"].summary.linesFound = 1

\* the step consumed raw line lastLine'
Consumed == pc = "parsing" /\ n' = n + 1

\* C4: inside a file block, FNDA:<count>,<name> sets the hit count of the
\* first function declared earlier in the block whose name is exactly
\* <name> (everything after the first comma) and of no other; without such
\* a function it changes nothing.  FN: declares with hit count 0, and no
\* other line changes a declared function.
C4_FunctionHitByName ==
    [][Consumed =>
        LET l == Trim(lastLine')
            name == Tail(l.parts)
            match(i) == currentFunctions[i].name = name
        IN /\ (l.tag = "FNDA:" /\ Len(l.parts) >= 2 /\ ~currentFile.isNull) =>
                /\ Len(currentFunctions') = Len(currentFunctions)
                /\ \A i \in 1..Len(currentFunctions) :
                     IF match(i) /\ \A j \in 1..(i - 1) : ~match(j)
                     THEN currentFunctions'[i] =
                            [currentFunctions[i] EXCEPT !.hit = ParseInt(l.parts[1])]
                     ELSE currentFunctions'[i] = currentFunctions[i]
                /\ (\A i \in 1..Len(currentFunctions) : ~match(i)) =>
                     UNCHANGED parseVars
           /\ (l.tag = "FN:" /\ Len(l.parts) >= 2) =>
                currentFunctions' =
                    Append(currentFunctions,
                           [name |-> name, line |-> ParseInt(l.parts[1]), hit |-> 0])
           /\ l.tag \notin {"FNDA:", "FN:", "SF:"} =>
                currentFunctions' = currentFunctions
    ]_vars

\* two functions of the same name declared in an open block, the FNDA line
\* for that name just read: the first has the hit count, the second has none
C4_Witness ==
    /\ pc = "parsing"
    /\ ~currentFile.isNull
    /\ lastLine.tag = "FNDA:"
    /\ Len(currentFunctions) = 2
    /\ currentFunctions[1].name = currentFunctions[2].name
    /\ currentFunctions[1].name = Tail(lastLine.parts)
    /\ currentFunctions[1].hit = 1
    /\ currentFunctions[2].hit = 0

Unrecognized(l) == NonEmpty(l) /\ \A t \in RecognizedTags : ~StartsWith(l, t)

\* C5: parse never fails: whatever was read, it can return a Report; a
\* line without a recognized prefix that is not end_of_record leaves the
\* parser state unchanged; the empty input gives a Report with no file
\* records and an all-zero summary.
C5_TolerantParse ==
    /\ [](pc = "parsing" => ENABLED Finish)
    /\ [][(Consumed /\ Unrecognized(Trim(lastLine'))) => UNCHANGED parseVars]_vars
    /\ []((pc = "parsed" /\ n = 0) =>
            (DOMAIN files = {} /\ summary = ZeroSummary))

\* an unrecognized line was read while a block with content was open
C5_Witness ==
    /\ pc = "parsing"
    /\ Unrecognized(Trim(lastLine))
    /\ HasPath(currentFile)
    /\ Len(currentLines) > 0

----------------------------------------------------------------------------
(* Claims about CoverageAnalyzer and CoverageGating (specification SpecAn) *)

Analyzed == pc \in {"analyzed", "checked", "gated"}

\* p (in hundredths) is hit / found x 100 rounded to 2 decimals, halves
\* up, and 100 when found is 0
IsPercentage(p, hit, found) ==
    IF found = 0 THEN p = 10000
    ELSE /\ 2 * (p * found - 10000 * hit) <= found
         /\ 2 * (p * found - 10000 * hit) > -found

\* C6: for a changed file with a report entry, each dimension's percentage
\* is 100 when nothing was found and hit/found x 100 otherwise, and the
\* overall percentage is (all hit) / (all found) x 100 over the three
\* dimensions together (100 when nothing at all was found), each rounded
\* to 2 decimals.
C6_FilePercentages ==
    Analyzed =>
        \A i \in 1..Len(analysis.changedFiles) :
            LET cf == analysis.changedFiles[i]
                a == cf.analysis
            IN cf.path \in DOMAIN files =>
                LET sm == files[cf.path].summary
                IN /\ IsPercentage(a.linesCoveragePercentage,
                                   sm.linesHit, sm.linesFound)
                   /\ IsPercentage(a.functionsCoveragePercentage,
                                   sm.functionsHit, sm.functionsFound)
                   /\ IsPercentage(a.branchesCoveragePercentage,
                                   sm.branchesHit, sm.branchesFound)
                   /\ IsPercentage(a.overallCoveragePercentage,
                                   sm.linesHit + sm.functionsHit + sm.branchesHit,
                                   sm.linesFound + sm.functionsFound
                                       + sm.branchesFound)

\* a file with 0/100 lines, 1/2 functions and no branch: the branches
\* count as 100 %, and the overall 1/102 is not the mean of 0, 50 and 100
C6_Witness ==
    /\ pc = "analyzed"
    /\ Len(analysis.changedFiles) = 1
    /\ LET a == analysis.changedFiles[1].analysis
       IN /\ analysis.changedFiles[1].hasCoverage
          /\ a.totalLines = 100
          /\ a.totalFunctions = 2
          /\ a.totalBranches = 0
          /\ a.branchesCoveragePercentage = 10000
          /\ a.overallCoveragePercentage = 98
          /\ 3 * a.overallCoveragePercentage /=
                a.linesCoveragePercentage + a.functionsCoveragePercentage
                    + a.branchesCoveragePercentage

AllZero(a) ==
    /\ a.totalLines = 0 /\ a.coveredLines = 0
    /\ a.totalFunctions = 0 /\ a.coveredFunctions = 0
    /\ a.totalBranches = 0 /\ a.coveredBranches = 0

AllPercentages(a, p) ==
    /\ a.linesCoveragePercentage = p
    /\ a.functionsCoveragePercentage = p
    /\ a.branchesCoveragePercentage = p
    /\ a.overallCoveragePercentage = p

\* C7: a changed file without report entry has no coverage record, six
\* counts of 0 and four percentages of 0; one whose entry has no line,
\* function or branch has four percentages of 100; there is one analysis
\* per changed file, in the changed files' order, and filesWithCoverage +
\* filesWithoutCoverage is the number of changed files.
C7_AbsentVersusEmpty ==
    Analyzed =>
        /\ Len(analysis.changedFiles) = Len(changeset)
        /\ \A i \in 1..Len(changeset) :
            LET cf == analysis.changedFiles[i]
            IN /\ cf.path = changeset[i]
               /\ cf.path \notin DOMAIN files =>
                    /\ ~cf.hasCoverage
                    /\ cf.coverage = NoCoverage
                    /\ AllZero(cf.analysis)
                    /\ AllPercentages(cf.analysis, 0)
               /\ cf.path \in DOMAIN files =>
                    /\ cf.hasCoverage
                    /\ cf.coverage = files[cf.path]
                    /\ (files[cf.path].summary.linesFound = 0
                        /\ files[cf.path].summary.functionsFound = 0
                        /\ files[cf.path].summary.branchesFound = 0) =>
                           AllPercentages(cf.analysis, 10000)
        /\ analysis.summary.totalChangedFiles = Len(changeset)
        /\ analysis.summary.filesWithCoverage
             + analysis.summary.filesWithoutCoverage = Len(changeset)
        /\ analysis.summary.filesWithCoverage =
             Cardinality({i \in 1..Len(changeset) : changeset[i] \in DOMAIN files})

\* changed files c (no entry) and a (an entry with nothing found)
C7_Witness ==
    /\ pc = "analyzed"
    /\ changeset = <<"c", "a">>
    /\ "a" \in DOMAIN files
    /\ AllPercentages(analysis.changedFiles[1].analysis, 0)
    /\ AllZero(analysis.changedFiles[2].analysis)
    /\ AllPercentages(analysis.changedFiles[2].analysis, 10000)

\* the number of times path p is a changed file
Occurrences(p) == Cardinality({i \in 1..Len(changeset) : changeset[i] = p})

\* the sum of a raw count of the report over the changed files
ChangedSum(field) ==
    LET v(p) == IF p \in DOMAIN files
                THEN Occurrences(p) * files[p].summary[field] ELSE 0
    IN v("a") + v("b")

OnlyLines(p, hit, found) ==
    /\ p \in DOMAIN files
    /\ files[p].summary = [functionsFound |-> 0, functionsHit |-> 0,
                           linesFound |-> found, linesHit |-> hit,
                           branchesFound |-> 0, branchesHit |-> 0]

\* C8: the aggregate sums each raw count over the changed files and derives
\* its percentages from the sums; files with 1/1 and 0/100 lines aggregate
\* to 0.99 %, not 50 %.
C8_AggregateFromSums ==
    Analyzed =>
        LET o == analysis.summary.overallCoverage
        IN /\ DOMAIN files \subseteq Paths
           /\ o.totalLines = ChangedSum("linesFound")
           /\ o.coveredLines = ChangedSum("linesHit")
           /\ o.totalFunctions = ChangedSum("functionsFound")
           /\ o.coveredFunctions = ChangedSum("functionsHit")
           /\ o.totalBranches = ChangedSum("branchesFound")
           /\ o.coveredBranches = ChangedSum("branchesHit")
           /\ IsPercentage(o.linesCoveragePercentage, o.coveredLines, o.totalLines)
           /\ IsPercentage(o.functionsCoveragePercentage,
                           o.coveredFunctions, o.totalFunctions)
           /\ IsPercentage(o.branchesCoveragePercentage,
                           o.coveredBranches, o.totalBranches)
           /\ IsPercentage(o.overallCoveragePercentage,
                           o.coveredLines + o.coveredFunctions + o.coveredBranches,
                           o.totalLines + o.totalFunctions + o.totalBranches)
           /\ (changeset = <<"a", "b">> /\ OnlyLines("a", 1, 1)
               /\ OnlyLines("b", 0, 100)) =>
                  o.overallCoveragePercentage = 99

\* the two files of the example: 100 % and 0 % by file, 0.99 % together
C8_Witness ==
    /\ pc = "analyzed"
    /\ changeset = <<"a", "b">>
    /\ OnlyLines("a", 1, 1)
    /\ OnlyLines("b", 0, 100)
    /\ analysis.changedFiles[1].analysis.overallCoveragePercentage = 10000
    /\ analysis.changedFiles[2].analysis.overallCoveragePercentage = 0
    /\ analysis.summary.overallCoverage.overallCoveragePercentage = 99

WithOverall(p) ==
    [changedFiles |-> <<>>,
     summary |-> [overallCoverage |-> [overallCoveragePercentage |-> p]]]

\* C10: for every threshold other than 0 the result has mode standard,
\* carries the threshold, and passes exactly when the aggregate overall
\* percentage is >= the threshold: 80 against 80 passes, 79.99 fails.
C10_StandardMode ==
    /\ (pc = "gated" /\ gating.threshold /= 0) =>
        /\ gating.mode = "standard"
        /\ gating.threshold \in Thresholds
        /\ gating.prCoveragePercentage =
             analysis.summary.overallCoverage.overallCoveragePercentage
        /\ gating.meetsThreshold =
             (analysis.summary.overallCoverage.overallCoveragePercentage
                >= gating.threshold)
    /\ pc = "gated" => (gating.mode = "standard") = (gating.threshold /= 0)
    /\ Evaluate(WithOverall(8000), summary, 8000).meetsThreshold
    /\ ~Evaluate(WithOverall(7999), summary, 8000).meetsThreshold
    /\ Evaluate(WithOverall(7999), summary, 8000).mode = "standard"

\* the aggregate equals the threshold of 50 and passes
C10_Witness ==
    /\ pc = "gated"
    /\ gating.mode = "standard"
    /\ gating.threshold = 5000
    /\ gating.prCoveragePercentage = 5000
    /\ gating.meetsThreshold

----------------------------------------------------------------------------
(* C11, C12: CoverageGating.evaluate, baseline mode and the texts *)

\* a whole percent p (in hundredths) is hit/found * 100 rounded half up
IsWholePercent(p, hit, found) ==
    /\ p % 100 = 0
    /\ 2 * found * (p \div 100) <= 2 * 100 * hit + found
    /\ 2 * 100 * hit + found < 2 * found * (p \div 100 + 1)

\* C11: threshold 0 selects mode baseline; the baseline is the report
\* summary's linesHit / linesFound * 100 rounded to a whole percent, 100
\* when the report has no lines; the result passes exactly when the
\* aggregate overall percentage is >= the baseline, so equality passes and
\* an aggregate of 50 fails against a report without lines.
C11_BaselineMode ==
    /\ (pc = "gated" /\ gating.threshold = 0) =>
        /\ gating.mode = "baseline"
        /\ gating.prCoveragePercentage =
             analysis.summary.overallCoverage.overallCoveragePercentage
        /\ IF summary.linesFound = 0
           THEN gating.overallProjectCoveragePercentage = 10000
           ELSE IsWholePercent(gating.overallProjectCoveragePercentage,
                               summary.linesHit, summary.linesFound)
        /\ gating.meetsThreshold =
             (analysis.summary.overallCoverage.overallCoveragePercentage
                >= gating.overallProjectCoveragePercentage)
    /\ pc = "gated" => (gating.mode = "baseline") = (gating.threshold = 0)
    /\ Evaluate(WithOverall(5000), ZeroSummary, 0).mode = "baseline"
    /\ Evaluate(WithOverall(5000), ZeroSummary, 0)
           .overallProjectCoveragePercentage = 10000
    /\ ~Evaluate(WithOverall(5000), ZeroSummary, 0).meetsThreshold

\* the aggregate equals a baseline taken from a report that has lines, and
\* passes
C11_Witness ==
    /\ pc = "gated"
    /\ gating.mode = "baseline"
    /\ summary.linesFound > 0
    /\ analysis.summary.overallCoverage.totalLines > 0
    /\ gating.prCoveragePercentage = gating.overallProjectCoveragePercentage
    /\ gating.meetsThreshold

\* C12: a gating result carries an error message exactly when it does not
\* pass, and always a description; the wording of the error names the
\* mode: the threshold in standard mode, the overall project coverage in
\* baseline mode.
C12_ErrorIffFailed ==
    pc = "gated" =>
        /\ (gating.errorMessage /= "undefined") = ~gating.meetsThreshold
        /\ gating.description /= "undefined"
        /\ gating.description /= ""
        /\ ~gating.meetsThreshold =>
             gating.errorMessage =
               (IF gating.mode = "baseline"
                THEN "is lower than overall project coverage"
                ELSE "is below threshold")

\* a passing baseline result: no error message, a description
C12_Witness ==
    /\ pc = "gated"
    /\ gating.mode = "baseline"
    /\ gating.meetsThreshold
    /\ gating.prCoveragePercentage > gating.overallProjectCoveragePercentage
    /\ gating.errorMessage = "undefined"
    /\ gating.description = "meets or exceeds overall project coverage"

----------------------------------------------------------------------------
(* C13 .. C17: the treemap nodes *)

\* every node of every call so far
Nodes == {treemaps[t][k] : <<t, k>> \in
             {c \in (1..MaxCalls + 1) \X (1..64) :
                 c[1] <= Len(treemaps) /\ c[2] <= Len(treemaps[c[1]])}}

FunctionNodesOf(S) == {node \in S : node.functionName /= NoFunctionName}

\* position of the first entry of the list that bears the name
FirstNamed(functions, name) ==
    MinOf({i \in 1..Len(functions) : functions[i].name = name})

\* the declaration line of the function a node stands for (the function
\* lists of the model give one line to a name)
DeclLine(node) ==
    LET functions == files[node.file].functions
    IN functions[FirstNamed(functions, node.functionName)].line

\* the declaration lines of the functions that come after the node's
\* function in line order; entries of one line are ordered as declared
FollowerLines(node) ==
    LET functions == files[node.file].functions
        own == FirstNamed(functions, node.functionName)
    IN {functions[j].line : j \in
           {j \in 1..Len(functions) :
               \/ functions[j].line > functions[own].line
               \/ functions[j].line = functions[own].line /\ j > own}}

\* the largest line number among the file's line records
MaxObservedLine(node) ==
    MaxOf({files[node.file].lines[i].line :
             i \in 1..Len(files[node.file].lines)})

\* the file of the example: functions at 5 and 20, largest line 30
ExampleCoverage ==
    FinalizeFileCoverage(Open("a"), <<Fn("f", 5, 1), Fn("g", 20, 0)>>,
                         <<Ln(30, 1)>>, <<>>)

\* C13, as claimed: in a file with at least one line record the function
\* declared last extends to the largest observed line inclusive (floor 1),
\* so functions at 5 and 20 with largest line 30 get 15 and 11 lines.
C13_LastExtentToMaxLineInclusive ==
    \A node \in FunctionNodesOf(Nodes) :
        (FollowerLines(node) = {} /\ files[node.file].lines /= <<>>) =>
            node.lineCount = Max2(MaxObservedLine(node) - DeclLine(node) + 1, 1)

\* C13, amended: the function that no other function follows in line order
\* extends from its declaration line to the larger of the largest observed
\* line and its own line + 10, that end line excluded; the own line + 10
\* takes part whether or not the file has line records, so the extent is
\* at least 10.  Functions at 5 and 20 with largest line 30 get 15 and 10.
C13_LastExtentAtLeastTen ==
    /\ \A node \in FunctionNodesOf(Nodes) :
          FollowerLines(node) = {} =>
              /\ node.lineCount >= 10
              /\ node.lineCount =
                   (IF files[node.file].lines = <<>>
                    THEN 10
                    ELSE Max2(MaxObservedLine(node), DeclLine(node) + 10)
                           - DeclLine(node))
    /\ GetFunctionLineCount(Fn("f", 5, 1), ExampleCoverage) = 15
    /\ GetFunctionLineCount(Fn("g", 20, 0), ExampleCoverage) = 10

\* the last function of a file whose largest line lies more than 10 behind
\* it: g at 20, largest line 40, extent 20
C13_Witness ==
    /\ pc = "treemapped"
    /\ \E node \in FunctionNodesOf(Nodes) :
          /\ FollowerLines(node) = {}
          /\ files[node.file].lines /= <<>>
          /\ DeclLine(node) = 20
          /\ MaxObservedLine(node) = 40
          /\ node.lineCount = 20

\* file and function name of each node of a list, in order
Owners(children) ==
    [k \in 1..Len(children) |->
        <<children[k].file, children[k].functionName>>]

\* the owners one expects entry by entry: one per function in the order of
\* the list, or one for the file
RECURSIVE ExpectedOwners(_, _)
ExpectedOwners(changedFiles, i) ==
    IF i > Len(changedFiles) THEN <<>>
    ELSE LET file == changedFiles[i]
         IN (IF file.hasCoverage /\ Len(file.coverage.functions) > 0
             THEN [k \in 1..Len(file.coverage.functions) |->
                      <<file.path, file.coverage.functions[k].name>>]
             ELSE <<<<file.path, NoFunctionName>>>>)
            \o ExpectedOwners(changedFiles, i + 1)

\* C14: the children of a call are, changed file by changed file, one node
\* per function record in the order the report declares them (the i-th
\* node of a file is for its i-th declared function).
C14_OneNodePerFunctionInOrder ==
    [][pc' = "treemapped" =>
          Owners(treemaps'[Len(treemaps')])
            = ExpectedOwners(analysis.changedFiles, 1)]_vars

\* C15: a function node followed by another function in line order has
\* lineCount max(next declaration line - own declaration line, 1); its
\* coveredLines is the number of line records of the file with a line in
\* [start, start + lineCount) and a hit count > 0; it is none with 0
\* covered lines, full when coveredLines = lineCount, partial otherwise.
C15_FunctionNode ==
    \A node \in FunctionNodesOf(Nodes) :
        LET lines == files[node.file].lines
            start == DeclLine(node)
        IN /\ FollowerLines(node) /= {} =>
                node.lineCount = Max2(MinOf(FollowerLines(node)) - start, 1)
           /\ node.coveredLines =
                Cardinality({i \in 1..Len(lines) :
                               /\ start <= lines[i].line
                               /\ lines[i].line < start + node.lineCount
                               /\ lines[i].hit > 0})
           /\ node.coverage = "none" <=> node.coveredLines = 0
           /\ node.coverage = "full" <=>
                (node.coveredLines /= 0 /\ node.coveredLines = node.lineCount)
           /\ node.coverage \in {"none", "full", "partial"}

\* f at 5 followed by g at 20, with lines 5 (hit) and 6 (not hit) in its
\* range: 15 lines, 1 covered, partial
C15_Witness ==
    /\ pc = "treemapped"
    /\ \E node \in FunctionNodesOf(Nodes) :
          /\ FollowerLines(node) = {20}
          /\ DeclLine(node) = 5
          /\ node.lineCount = 15
          /\ node.coveredLines = 1
          /\ node.coverage = "partial"

\* number of nodes a changed file gets
NodeCount(file) ==
    IF file.hasCoverage /\ Len(file.coverage.functions) > 0
    THEN Len(file.coverage.functions)
    ELSE 1

\* number of nodes of the changed files before entry i
RECURSIVE NodesBefore(_, _)
NodesBefore(changedFiles, i) ==
    IF i <= 1 THEN 0
    ELSE NodesBefore(changedFiles, i - 1) + NodeCount(changedFiles[i - 1])

\* C16: every node has value max(lineCount, 1) >= 1; a changed file
\* without coverage has exactly one node, none with 0 covered lines; a file
\* with coverage and no function has exactly one node without function
\* name, none at 0 % line coverage, full at 100 %, partial otherwise, with
\* the file's total and covered line counts.
C16_FileNodes ==
    /\ \A node \in Nodes :
          node.value = Max2(node.lineCount, 1) /\ node.value >= 1
    /\ \A t \in 1..Len(treemaps) :
          LET changedFiles == analysis.changedFiles
              children == treemaps[t]
          IN /\ Len(children) =
                  NodesBefore(changedFiles, Len(changedFiles) + 1)
             /\ \A i \in 1..Len(changedFiles) :
                  LET file == changedFiles[i]
                      node == children[NodesBefore(changedFiles, i) + 1]
                  IN /\ ~file.hasCoverage =>
                          /\ node.file = file.path
                          /\ node.functionName = NoFunctionName
                          /\ node.coverage = "none"
                          /\ node.coveredLines = 0
                     /\ (file.hasCoverage /\ file.coverage.functions = <<>>) =>
                          /\ node.file = file.path
                          /\ node.functionName = NoFunctionName
                          /\ node.lineCount = Len(file.coverage.lines)
                          /\ node.coveredLines = CountHit(file.coverage.lines)
                          /\ node.coverage =
                               (IF file.analysis.linesCoveragePercentage = 0
                                THEN "none"
                                ELSE IF file.analysis.linesCoveragePercentage
                                          = 10000
                                THEN "full"
                                ELSE "partial")

\* a file without coverage followed by a file of four lines, two of them
\* hit, without functions
C16_Witness ==
    /\ pc = "treemapped"
    /\ Len(analysis.changedFiles) = 2
    /\ ~analysis.changedFiles[1].hasCoverage
    /\ analysis.changedFiles[2].hasCoverage
    /\ analysis.changedFiles[2].coverage.functions = <<>>
    /\ Len(treemaps[1]) = 2
    /\ treemaps[1][1].value = 1
    /\ treemaps[1][1].lineCount = 0
    /\ treemaps[1][2].coverage = "partial"
    /\ treemaps[1][2].lineCount = 4
    /\ treemaps[1][2].coveredLines = 2

\* C17: generateTreemapData leaves the analysis and the records of the
\* report as they were; each function list keeps its order.
C17_InputsUnchanged ==
    [][pc' = "treemapped" => (files' = files /\ analysis' = analysis)]_vars

----------------------------------------------------------------------------
(* C18: the region grouper *)

\* the runs of a list of groups, one behind the other
RECURSIVE Flatten(_)
Flatten(groups) ==
    IF groups = <<>> THEN <<>> ELSE Head(groups) \o Flatten(Tail(groups))

\* how often a number occurs in a list
Times(s, v) == Cardinality({i \in 1..Len(s) : s[i] = v})

\* s holds the entries of t, each as often as t, in ascending order
IsSortedCopyOf(s, t) ==
    /\ Len(s) = Len(t)
    /\ \A v \in 1..MaxLineNo + 10 : Times(s, v) = Times(t, v)
    /\ \A i \in 1..Len(s) - 1 : s[i] <= s[i + 1]

HasRepeats(s) == \E i, j \in 1..Len(s) : i < j /\ s[i] = s[j]

Grouped(input, runs) ==
    /\ IsSortedCopyOf(Flatten(runs), input)
    /\ input = <<>> => runs = <<>>
    /\ \A g \in 1..Len(runs) :
          /\ runs[g] /= <<>>
          /\ \A i \in 2..Len(runs[g]) : runs[g][i] = runs[g][i - 1] + 1
    /\ \A g \in 1..Len(runs) - 1 :
          /\ runs[g][1] <= runs[g + 1][1]
          /\ ~HasRepeats(input) => runs[g][1] < runs[g + 1][1]

\* C18: groupConsecutiveLines returns runs whose concatenation is the
\* input sorted ascending (no runs for the empty input); in a run every
\* element is its predecessor + 1; the runs are ordered by ascending start
\* (two runs start alike only when the input repeats a number);
\* 2,3,4,6,8,9 gives [[2,3,4],[6],[8,9]]; and each run becomes one
\* annotation from its first to its last line.
C18_RegionGrouper ==
    /\ pc = "annotated" =>
         /\ ckFile.hasCoverage =>
               Grouped(UncoveredLines(ckFile.coverage), regions)
         /\ Len(annotations) = Len(regions)
         /\ \A g \in 1..Len(regions) :
               /\ annotations[g].start_line = regions[g][1]
               /\ annotations[g].end_line = regions[g][Len(regions[g])]
               /\ annotations[g].path = ckFile.path
    /\ GroupConsecutiveLines(<<8, 3, 2, 9, 6, 4>>)
         = <<<<2, 3, 4>>, <<6>>, <<8, 9>>>>
    /\ GroupConsecutiveLines(<<>>) = <<>>

\* lines 4, 2, 1 without hits, given in that order: runs [1,2] and [4]
C18_Witness ==
    /\ pc = "annotated"
    /\ ckFile.hasCoverage
    /\ UncoveredLines(ckFile.coverage) = <<4, 2, 1>>
    /\ regions = <<<<1, 2>>, <<4>>>>
    /\ Len(annotations) = 2
    /\ annotations[1].start_line = 1
    /\ annotations[1].end_line = 2

----------------------------------------------------------------------------
(* C19, C20: the check run and the outcome of run *)

\* C19: the conclusion of the check run that was created is success when
\* the gating result meets the threshold and failure when it does not.
C19_ConclusionFollowsGating ==
    conclusion /= "none" =>
        conclusion = (IF gating.meetsThreshold THEN "success" ELSE "failure")

\* the calls of core.setFailed so far
SetFailedCalls == SelectSeq(coreLog, LAMBDA c : c.call = "setFailed")
SuccessLogged == \E i \in 1..Len(coreLog) : coreLog[i] = SuccessInfo
Warned(message) == \E i \in 1..Len(coreLog) : coreLog[i] = Warning(message)

\* evaluate has returned a result that does not pass
GatingFailed == gating.mode /= "none" /\ ~gating.meetsThreshold

\* the text run hands to setFailed for a gating result that does not pass
GatingFailureText ==
    IF gating.errorMessage /= "undefined" THEN gating.errorMessage
    ELSE "Coverage threshold not met."

\* a finished run has exactly one of the two outcomes
OneOutcome ==
    /\ Len(SetFailedCalls) <= 1
    /\ SuccessLogged <=> Len(SetFailedCalls) = 0

\* C20, as claimed: a finished run has called setFailed exactly once or has
\* logged the success message and never called setFailed; setFailed is
\* called exactly when the gating result does not pass or changeset
\* detection, report parsing or analysis throws.
C20_FailsOnlyForGatingOrPipelineSteps ==
    pc = "done" =>
        /\ OneOutcome
        /\ Len(SetFailedCalls) = 1 <=>
             \/ GatingFailed
             \/ thrown \in {"detectChangeset", "parseLcovReport",
                            "analyzeCoverageAndGating"}

\* C20, amended: a finished run has called setFailed exactly once or has
\* logged the success message and never called setFailed; setFailed is
\* called exactly when the gating result does not pass (with its error
\* message, or 'Coverage threshold not met.' without one) or when reading
\* the inputs (the required github-token is missing), changeset detection,
\* report parsing or analysis throws (with the error's message); treemap,
\* PR comment and check annotations only warn.
C20_RunOutcome ==
    /\ Len(SetFailedCalls) <= 1
    /\ (SuccessLogged \/ Len(SetFailedCalls) = 1) => pc = "done"
    /\ thrown \in {"none", "getInputs", "detectChangeset", "parseLcovReport",
                   "analyzeCoverageAndGating"}
    /\ pc = "done" =>
        /\ OneOutcome
        /\ Len(SetFailedCalls) = 1 <=> (GatingFailed \/ thrown /= "none")
        /\ thrown /= "none" =>
             /\ ~GatingFailed
             /\ SetFailedCalls[1].message =
                  (CASE thrown = "getInputs" ->
                          "Input required and not supplied: github-token"
                     [] thrown = "detectChangeset" -> "Git error"
                     [] thrown = "parseLcovReport" -> "LCOV file not found"
                     [] thrown = "analyzeCoverageAndGating" ->
                          "Unable to write output")
        /\ GatingFailed => SetFailedCalls[1].message = GatingFailureText

\* treemap, PR comment and check annotations have all failed, and the run
\* ends with the success message
C20_Witness ==
    /\ pc = "done"
    /\ Warned("Failed to generate treemap")
    /\ Warned("Failed to post PR comment")
    /\ Warned("Failed to post check annotations")
    /\ SuccessLogged
    /\ Len(SetFailedCalls) = 0
    /\ gating.meetsThreshold

----------------------------------------------------------------------------
(* C23, C24, C25, C26: effects of lines without accumulator, of a second
   treemap call, of repeated line numbers *)

\* C23: while no file accumulator is open (before the first SF:, or after
\* an end_of_record and before the next SF:), no input line changes a
\* stored record: the map of file records stays as it is.
C23_NoEffectWithoutAccumulator ==
    [][(Consumed /\ currentFile.isNull) => files' = files]_vars

\* C24: two successive calls of generateTreemapData on one analysis return
\* equal node lists.
C24_Repeatable ==
    Len(treemaps) >= 2 => treemaps[2] = treemaps[1]

\* C25: every node has 0 <= coveredLines <= lineCount.
C25_CoveredWithinLineCount ==
    \A node \in Nodes :
        0 <= node.coveredLines /\ node.coveredLines <= node.lineCount

\* C26: the annotations for the uncovered lines of a file have pairwise
\* disjoint, non-adjacent ranges.
C26_DisjointRanges ==
    pc = "annotated" =>
        \A g, h \in 1..Len(annotations) :
            g < h => annotations[g].end_line + 1 < annotations[h].start_line

----------------------------------------------------------------------------
(* C27, C28: aggregates of change lists without, and with all, report files *)

\* no changed file has a report entry
NoneCovered ==
    \A i \in 1..Len(analysis.changedFiles) :
        ~analysis.changedFiles[i].hasCoverage

\* C27: when no changed file has a report entry (the empty change list
\* included) the aggregate overall percentage is 100 although every
\* per-file overall percentage is 0, and evaluate in standard mode passes
\* for every threshold <= 100.
C27_NothingCoveredIsFullyCovered ==
    /\ (Analyzed /\ NoneCovered) =>
         /\ analysis.summary.overallCoverage.overallCoveragePercentage = 10000
         /\ analysis.summary.filesWithCoverage = 0
         /\ \A i \in 1..Len(analysis.changedFiles) :
               analysis.changedFiles[i].analysis.overallCoveragePercentage = 0
    /\ (pc = "gated" /\ NoneCovered /\ gating.mode = "standard") =>
         /\ gating.threshold <= 10000
         /\ gating.prCoveragePercentage = 10000
         /\ gating.meetsThreshold
    /\ \A t \in Thresholds \ {0} :
          Evaluate(AnalyzeResult(<<>>, files), summary, t).meetsThreshold

\* two changed files, neither in a report that has files; threshold 100
C27_Witness ==
    /\ pc = "gated"
    /\ Len(analysis.changedFiles) = 2
    /\ NoneCovered
    /\ DOMAIN files /= {}
    /\ gating.mode = "standard"
    /\ gating.threshold = 10000
    /\ gating.meetsThreshold

\* the change list names every file of the report, each once
ChangesWholeReport ==
    /\ Len(changeset) = Cardinality(DOMAIN files)
    /\ {changeset[i] : i \in 1..Len(changeset)} = DOMAIN files

\* C28: in baseline mode a change list that consists of exactly all files
\* of the report passes.
C28_WholeProjectMeetsBaseline ==
    (pc = "gated" /\ gating.mode = "baseline" /\ ChangesWholeReport) =>
        gating.meetsThreshold

----------------------------------------------------------------------------
(* C30: the order of the steps of run *)

\* the step that follows a step of run that returned
StepAfter(step) ==
    CASE step = "getInputs" -> "detectChangeset"
      [] step = "detectChangeset" -> "parseLcovReport"
      [] step = "parseLcovReport" -> "analyzeCoverageAndGating"
      [] step = "analyzeCoverageAndGating" -> "generateAndUploadTreemap"
      [] step = "generateAndUploadTreemap" -> "postPrComment"
      [] step = "postPrComment" -> "postCheckAnnotations"
      [] step = "postCheckAnnotations" -> "gate"
      [] step = "gate" -> "done"
      [] OTHER -> "done"

SideSteps == {"generateAndUploadTreemap", "postPrComment", "postCheckAnnotations"}

\* this step calls core.setFailed
CallsSetFailed == Len(SetFailedCalls') > Len(SetFailedCalls)

\* C30: the steps of run follow one another in the order changeset
\* detection, report parsing, analysis and gating, treemap, PR comment,
\* check annotations; the three last ones lead on to the next step
\* whatever the gating result, and setFailed for a gating result that does
\* not pass is called only behind them; the treemap is not generated when
\* no changed file has coverage, and the annotations are generated only
\* when both the GitHub App id and the private key are given.
C30_StepOrder ==
    [][/\ pc' /= pc =>
            \/ pc' = StepAfter(pc)
            \/ pc \notin SideSteps /\ pc /= "gate" /\ pc' = "done"
                  /\ thrown' = pc
       /\ pc \in SideSteps => (pc' = StepAfter(pc) /\ ~CallsSetFailed)
       /\ (CallsSetFailed /\ thrown' = "none") =>
            (pc = "gate" /\ ~gating.meetsThreshold)
       /\ pc = "generateAndUploadTreemap" =>
            (NoneCovered <=> treemaps' = treemaps)
       /\ (pc = "generateAndUploadTreemap" /\ NoneCovered) =>
            UNCHANGED <<files, analysis, coreLog>>
       /\ pc = "postCheckAnnotations" =>
            IF inputs.githubAppId /\ inputs.githubAppPrivateKey
            THEN annotations' = GenerateAnnotations(analysis)
            ELSE UNCHANGED <<annotations, conclusion, coreLog>>
      ]_vars

\* gating has failed; the PR comment step has run (and warned), a check run
\* was created, and only then setFailed was called
C30_Witness ==
    /\ pc = "done"
    /\ thrown = "none"
    /\ ~gating.meetsThreshold
    /\ Warned("Failed to post PR comment")
    /\ conclusion /= "none"
    /\ Len(treemaps) = 1
    /\ Len(SetFailedCalls) = 1
    /\ coreLog[Len(coreLog)].call = "setFailed"

----------------------------------------------------------------------------
(* SpecCk: generateAnnotations applied to analyses with many annotations *)

\* the warning of prioritizeAndLimitAnnotations when it cuts the list
LimitWarning ==
    Warning("Generated more annotations than the Checks API supports")

\* k functions that were never called, declared at lines 1 .. k
UncalledFunctions(k) == [i \in 1..k |-> Fn(ToString(i), i, 0)]

\* the files of the reports: nothing to annotate; uncovered lines only;
\* a few, almost half of, more than half of, and more than maxAnnotations
\* uncovered functions, beside lines that are hit or not
CkShapes ==
    {[f |-> <<>>, l |-> <<Ln(1, 1), Ln(2, 1)>>],
     [f |-> <<>>, l |-> <<Ln(2, 0), Ln(3, 0), Ln(7, 0), Ln(5, 1)>>],
     [f |-> UncalledFunctions(3), l |-> <<Ln(1, 1)>>],
     [f |-> UncalledFunctions(24), l |-> <<>>],
     [f |-> UncalledFunctions(26), l |-> <<Ln(4, 0), Ln(9, 0)>>],
     [f |-> UncalledFunctions(51), l |-> <<Ln(1, 1), Ln(2, 1)>>]}

InitCk ==
    /\ pc = "parsed"
    /\ n = 0
    /\ \E S \in SUBSET Paths : \E sh \in [S -> CkShapes] :
          files = [p \in S |->
                     FinalizeFileCoverage(Open(p), sh[p].f, sh[p].l, <<>>)]
    /\ summary = CalculateSummary(files)
    /\ currentFile = Null
    /\ currentFunctions = <<>>
    /\ currentLines = <<>>
    /\ currentBranches = <<>>
    /\ alias = ""
    /\ lastLine = NoLine
    /\ named = {}
    /\ sfCount = 0
    /\ blk = <<>>
    /\ blkCur = ""
    /\ blkOpen = FALSE
    /\ closedAt = <<>>
    /\ changeset = <<>>
    /\ analysis = NoAnalysis
    /\ check = NoCheck
    /\ gating = NoGating
    /\ OutInit

\* one call of generateAnnotations(analysis)
GenerateCheckAnnotations ==
    /\ pc = "analyzed"
    /\ annotations' = GenerateAnnotations(analysis)
    /\ coreLog' =
         IF Len(CollectAnnotations(analysis.changedFiles, 1)) > MaxAnnotations
         THEN Append(coreLog, LimitWarning)
         ELSE coreLog
    /\ pc' = "generated"
    /\ UNCHANGED <<n, parseVars, lastLine, histVars, anVars, treemaps, ckFile,
                   regions, inputs, conclusion, thrown, prVars>>

NextCk ==
    \/ Analyze
    \/ GenerateCheckAnnotations

SpecCk == InitCk /\ [][NextCk]_vars

----------------------------------------------------------------------------
(* C22: priority order and limit of the annotations *)

\* failure before warning before notice
LevelRank(a) ==
    CASE a.annotation_level = "failure" -> 0
      [] a.annotation_level = "warning" -> 1
      [] a.annotation_level = "notice" -> 2

\* the annotations in the order the loop over the changed files made them
Generated == CollectAnnotations(analysis.changedFiles, 1)

\* the place of the k-th annotation of gen when the annotations are
\* ordered by level, and by generation inside a level
PlaceOf(gen, k) ==
    1 + Cardinality({j \in 1..Len(gen) :
                       \/ LevelRank(gen[j]) < LevelRank(gen[k])
                       \/ /\ LevelRank(gen[j]) = LevelRank(gen[k])
                          /\ j < k})

\* C22: generateAnnotations returns at most 50 annotations, ordered by
\* level (failure, warning, notice) and inside a level by generation; of
\* more than 50 generated annotations it returns the first 50 of that
\* ordering, so nothing dropped has a higher priority than anything
\* returned.
C22_PrioritizedAndLimited ==
    pc = "generated" =>
        \A gen \in {Generated} :
            /\ Len(annotations) <= 50
            /\ Len(annotations) = MinOf({50, Len(gen)})
            /\ \A k \in 1..Len(gen) : \A place \in {PlaceOf(gen, k)} :
                  IF place <= 50
                  THEN annotations[place] = gen[k]
                  ELSE \A i \in 1..Len(annotations) :
                          LevelRank(gen[k]) >= LevelRank(annotations[i])

\* more than 50 annotations were generated, a notice was generated before
\* a warning that is returned, and a notice is dropped
C22_Witness ==
    /\ pc = "generated"
    /\ Len(annotations) = 50
    /\ \E gen \in {Generated} :
          /\ Len(gen) > 50
          /\ \E j, k \in 1..Len(gen) :
                /\ j < k
                /\ gen[j].annotation_level = "notice"
                /\ gen[k].annotation_level = "warning"
                /\ PlaceOf(gen, k) <= 50
                /\ PlaceOf(gen, j) > 50

----------------------------------------------------------------------------
(* ChangesetUtils and ChangesetService.detectCodeChanges: the filter of the
   changed files.  A path is its directories and the dot-separated parts
   of its file name; a glob is one of the forms the defaults and the tests
   of the repository use; a pattern text is the list of its comma-separated
   entries. *)

Path(dirs, name) == [dirs |-> dirs, name |-> name]

\* "**/*.word", "**/*.word.*", "**/dir/**" and "dir/**/*.word"
AnyExt(word) == [kind |-> "ext", dir |-> "", word |-> word]
AnyInfix(word) == [kind |-> "infix", dir |-> "", word |-> word]
AnyDir(dir) == [kind |-> "dir", dir |-> dir, word |-> ""]
UnderExt(dir, word) == [kind |-> "under", dir |-> dir, word |-> word]
\* an entry of blanks only, as between the commas of "a, ,b"
Blank == [kind |-> "blank", dir |-> "", word |-> ""]

\* a pattern text, or `undefined`
Text(entries) == [given |-> TRUE, entries |-> entries]
Undefined == [given |-> FALSE, entries |-> <<>>]

\* `const matcher = picomatch(pattern.trim()); return matcher(filePath)`
Matches(filePath, pattern) ==
    LET name == filePath.name
        HasExt(word) == Len(name) >= 2 /\ name[Len(name)] = word
    IN CASE pattern.kind = "ext" -> HasExt(pattern.word)
         [] pattern.kind = "infix" ->
              \E i \in 2..(Len(name) - 1) : name[i] = pattern.word
         [] pattern.kind = "dir" ->
              \E i \in 1..Len(filePath.dirs) : filePath.dirs[i] = pattern.dir
         [] pattern.kind = "under" ->
              /\ Len(filePath.dirs) >= 1
              /\ filePath.dirs[1] = pattern.dir
              /\ HasExt(pattern.word)
         [] OTHER -> FALSE

DEFAULT_SOURCE_PATTERNS ==
    <<AnyExt("ts"), AnyExt("js"), AnyExt("tsx"), AnyExt("jsx"), AnyExt("py"),
      AnyExt("java"), AnyExt("cs"), AnyExt("cpp"), AnyExt("c"), AnyExt("go"),
      AnyExt("rs")>>

DEFAULT_TEST_PATTERNS ==
    <<AnyInfix("test"), AnyInfix("spec"), AnyDir("test"), AnyDir("tests"),
      AnyDir("__tests__"), AnyInfix("mock")>>

\* ChangesetUtils.matchesAnyPattern(filePath, patterns)
MatchesAnyPattern(filePath, patterns) ==
    IF Len(patterns) = 0 THEN FALSE
    ELSE \E i \in 1..Len(patterns) : Matches(filePath, patterns[i])

\* the truthiness of a pattern text: `undefined` and "" are falsy
Truthy(patternString) == patternString.given /\ patternString.entries /= <<>>

IsPattern(entry) == entry.kind /= "blank"

\* ChangesetUtils.parsePatterns(patternString)
ParsePatterns(patternString) ==
    IF ~Truthy(patternString) THEN <<>>
    ELSE SelectSeq(patternString.entries, IsPattern)

\* ChangesetUtils.createChangeset(files, ...), without the commit names
CreateChangeset(paths) == [files |-> paths, totalFiles |-> Len(paths)]

\* ChangesetUtils.filterByPatterns(changeset, sourceCodePattern,
\* testCodePattern) called with two arrays
FilterByPatterns(cs, sourceCodePattern, testCodePattern) ==
    LET Keep(file) == /\ MatchesAnyPattern(file, sourceCodePattern)
                      /\ ~MatchesAnyPattern(file, testCodePattern)
        filteredFiles == SelectSeq(cs.files, Keep)
    IN [files |-> filteredFiles, totalFiles |-> Len(filteredFiles)]

\* the `defaultExtensions` of detectCodeChanges
DefaultExtensions ==
    {"ts", "js", "tsx", "jsx", "py", "java", "cs", "cpp", "c", "go", "rs"}

\* ChangesetUtils.filterByExtensions(changeset, extensions):
\* `extensions.some((ext) => file.path.endsWith(ext))`
FilterByExtensions(cs, extensions) ==
    LET Keep(file) == /\ Len(file.name) >= 2
                      /\ file.name[Len(file.name)] \in extensions
        filteredFiles == SelectSeq(cs.files, Keep)
    IN [files |-> filteredFiles, totalFiles |-> Len(filteredFiles)]

\* `core.getInput(name) || undefined` of getInputs
PatternInput(text) == IF Truthy(text) THEN text ELSE Undefined

\* ChangesetService.detectCodeChanges behind `await detectChanges(...)`
FilterDetected(cs, sourceCodePattern, testCodePattern) ==
    IF Truthy(sourceCodePattern) \/ Truthy(testCodePattern)
    THEN FilterByPatterns(cs, ParsePatterns(sourceCodePattern),
                          ParsePatterns(testCodePattern))
    ELSE FilterByExtensions(cs, DefaultExtensions)

----------------------------------------------------------------------------
(* SpecCs: detectCodeChanges on bounded lists of changed files *)

\* number of files git reports as changed
MaxFiles == 2

\* src/main.ts, src/main.test.ts, src/utils.spec.js, lib/helper.py,
\* tests/integration.js, __tests__/unit.ts, src/components/Button.mock.ts,
\* docs/readme.md, main.ts
ChangedFileNames ==
    {Path(<<"src">>, <<"main", "ts">>),
     Path(<<"src">>, <<"main", "test", "ts">>),
     Path(<<"src">>, <<"utils", "spec", "js">>),
     Path(<<"lib">>, <<"helper", "py">>),
     Path(<<"tests">>, <<"integration", "js">>),
     Path(<<"__tests__">>, <<"unit", "ts">>),
     Path(<<"src", "components">>, <<"Button", "mock", "ts">>),
     Path(<<"docs">>, <<"readme", "md">>),
     Path(<<>>, <<"main", "ts">>)}

GitFileLists == UNION {[1..k -> ChangedFileNames] : k \in 0..MaxFiles}

\* the texts of the input source-code-pattern: not supplied,
\* "src/**/*.ts", "**/*.ts, ,**/*.js", "**/*.md"
SourceTexts ==
    {Text(<<>>),
     Text(<<UnderExt("src", "ts")>>),
     Text(<<AnyExt("ts"), Blank, AnyExt("js")>>),
     Text(<<AnyExt("md")>>)}

\* the texts of the input test-code-pattern: not supplied, "**/*.mock.*",
\* "**/*.test.*,**/tests/**", ","
TestTexts ==
    {Text(<<>>),
     Text(<<AnyInfix("mock")>>),
     Text(<<AnyInfix("test"), AnyDir("tests")>>),
     Text(<<Blank, Blank>>)}

InitCs ==
    /\ pc = "detectChanges"
    /\ n = 0
    /\ files = <<>>
    /\ summary = ZeroSummary
    /\ currentFile = Null
    /\ currentFunctions = <<>>
    /\ currentLines = <<>>
    /\ currentBranches = <<>>
    /\ alias = ""
    /\ lastLine = NoLine
    /\ named = {}
    /\ sfCount = 0
    /\ blk = <<>>
    /\ blkCur = ""
    /\ blkOpen = FALSE
    /\ closedAt = <<>>
    /\ changeset = CreateChangeset(<<>>)
    /\ analysis = NoAnalysis
    /\ check = NoCheck
    /\ gating = NoGating
    /\ treemaps = <<>>
    /\ ckFile = [path |-> ""]
    /\ regions = <<>>
    /\ annotations = <<>>
    /\ \E s \in SourceTexts, t \in TestTexts :
          inputs = [sourceCodePattern |-> PatternInput(s),
                    testCodePattern |-> PatternInput(t)]
    /\ coreLog = <<>>
    /\ conclusion = "none"
    /\ thrown = "none"
    /\ PrInit

\* `const changeset = await ChangesetService.detectChanges(targetBranch)`
DetectChanges ==
    \E changedFiles \in GitFileLists :
        /\ pc = "detectChanges"
        /\ changeset' = CreateChangeset(changedFiles)
        /\ pc' = "filterChanges"
        /\ UNCHANGED <<n, parseVars, lastLine, histVars, analysis, check,
                       gating, outVars>>

\* the rest of detectCodeChanges: the filter and the return
FilterChanges ==
    /\ pc = "filterChanges"
    /\ changeset' = FilterDetected(changeset, inputs.sourceCodePattern,
                                   inputs.testCodePattern)
    /\ pc' = "changesetDetected"
    /\ UNCHANGED <<n, parseVars, lastLine, histVars, analysis, check, gating,
                   outVars>>

NextCs ==
    \/ DetectChanges
    \/ FilterChanges

SpecCs == InitCs /\ [][NextCs]_vars

----------------------------------------------------------------------------
(* C21: default patterns for the side that is not given *)

\* the patterns in effect for one side: those of the text, or the defaults
\* when the text has none
Effective(patternString, defaults) ==
    IF ParsePatterns(patternString) = <<>> THEN defaults
    ELSE ParsePatterns(patternString)

KeptByEffective(file) ==
    /\ MatchesAnyPattern(file, Effective(inputs.sourceCodePattern,
                                         DEFAULT_SOURCE_PATTERNS))
    /\ ~MatchesAnyPattern(file, Effective(inputs.testCodePattern,
                                          DEFAULT_TEST_PATTERNS))

\* C21: a side whose pattern is empty or not supplied uses its default
\* list; the filter keeps, in the original order, exactly the files that
\* match an effective source pattern and no effective test pattern, and
\* totalFiles is the number of kept files.
C21_DefaultsForMissingSide ==
    [][pc = "filterChanges" =>
          /\ changeset'.files = SelectSeq(changeset.files, KeptByEffective)
          /\ changeset'.totalFiles = Len(changeset'.files)]_vars

----------------------------------------------------------------------------
(* SpecPr: runs of the action with different labels post their comment on
   one pull request *)

\* number of calls of postComment on the pull request
MaxPosts == 3

\* no label, "unit", "unit-tests" and "e2e"
Labels == {NoLabel, <<"unit">>, <<"unit", "-tests">>, <<"e2e">>}

InitPr ==
    /\ pc = "postComment"
    /\ n = 0
    /\ files = <<>>
    /\ summary = ZeroSummary
    /\ currentFile = Null
    /\ currentFunctions = <<>>
    /\ currentLines = <<>>
    /\ currentBranches = <<>>
    /\ alias = ""
    /\ lastLine = NoLine
    /\ named = {}
    /\ sfCount = 0
    /\ blk = <<>>
    /\ blkCur = ""
    /\ blkOpen = FALSE
    /\ closedAt = <<>>
    /\ changeset = <<>>
    /\ analysis = NoAnalysis
    /\ check = NoCheck
    /\ gating = NoGating
    /\ treemaps = <<>>
    /\ ckFile = [path |-> ""]
    /\ regions = <<>>
    /\ annotations = <<>>
    /\ RunInit
    /\ \E k \in {0, 1, PerPage} : comments = [i \in 1..k |-> UserComment(i)]
    /\ posts = <<>>

\* one run of the action reaches postComment and the call returns
PostComment ==
    \E label \in Labels :
        /\ pc = "postComment"
        /\ Len(posts) < MaxPosts
        /\ PostCommentDone(label)
        /\ UNCHANGED <<pc, n, parseVars, lastLine, histVars, anVars, treemaps,
                       ckFile, regions, annotations, runVars>>

\* one run of the action reaches postComment and the call throws
PostCommentThrows ==
    \E label \in Labels :
        /\ pc = "postComment"
        /\ Len(posts) < MaxPosts
        /\ PostCommentFailed(label)
        /\ UNCHANGED <<pc, n, parseVars, lastLine, histVars, anVars, treemaps,
                       ckFile, regions, annotations, runVars>>

NextPr ==
    \/ PostComment
    \/ PostCommentThrows

SpecPr == InitPr /\ [][NextPr]_vars

----------------------------------------------------------------------------
(* C29: one comment per label *)

\* the comment with this id was created by a run with this label
CreatedWith(id, label) ==
    \E i \in 1..Len(comments) :
        /\ comments[i].id = id
        /\ comments[i].byAction
        /\ comments[i].label = label

\* C29: over every sequence of postComment calls on one pull request a
\* run with label L (or without label) creates its comment at most once and
\* afterwards only updates that comment, and it never updates a comment
\* that a run with another label created.
C29_OneCommentPerLabel ==
    /\ \A i, j \in 1..Len(posts) :
          (i < j /\ posts[i].label = posts[j].label /\ posts[i].op = "create")
             => /\ posts[j].op /= "create"
                /\ posts[j].op = "update" => posts[j].id = posts[i].id
    /\ \A j \in 1..Len(posts) :
          posts[j].op = "update" => CreatedWith(posts[j].id, posts[j].label)

====
